---- MODULE Spec2Model ----
(***************************************************************************)
(* A model of PyCPU, the 8-bit virtual processor of                        *)
(* src/src/python_cpu_emulator: the execution engine (cpu.py), the opcode  *)
(* registry and dispatch list (instructions/base.py, __init__.py), the     *)
(* instruction classes (instructions/*.py) and the flag helpers (utils.py).*)
(*                                                                         *)
(* Memory is a Python list of ints.  It is kept here as a record           *)
(*   [len |-> the list's length, cells |-> its non-zero cells]             *)
(* so that a 4..64 KiB list, almost all of it zero, is one small value.    *)
(* Two lists are equal iff their records are equal.                        *)
(***************************************************************************)
EXTENDS Integers, Sequences, FiniteSets, TLC

VARIABLES
    ram_size,   \* the ram_size argument CPU.__init__ was called with (KiB)
    RAM_SIZE,   \* CPU.RAM_SIZE
    RAM,        \* CPU.RAM
    GPU,        \* CPU.GPU: TRUE iff a Display is bound
    REG,        \* CPU.REG
    FLAGS,      \* CPU.FLAGS
    TICKS,      \* CPU.TICKS
    frames,     \* number of Display.draw calls that ran to their end
    display,    \* the Display: the clock it reads, last_drawn, and what it printed last
    call,       \* the last call made on the engine and how it ended
    run,        \* the call of CPU.run under way or ended last
    loads       \* number of load_data calls made so far

vars == <<ram_size, RAM_SIZE, RAM, GPU, REG, FLAGS, TICKS, frames, display, call, run, loads>>

(***************************************************************************)
(* Bounds of the model.                                                    *)
(***************************************************************************)
MaxLoads == 2      \* load_data calls per run
MaxTicks == 3      \* TICKS is not counted past this
MaxReq == 70       \* largest ram_size requested at construction
MaxRunTicks == 8   \* ticks of one run of a loaded program
MaxStatements == 4 \* statements of an assembler source
MaxTime == 5       \* last reading of the clock the display reads
MaxRuns == 2       \* calls of run on one engine

(***************************************************************************)
(* Program constants.                                                      *)
(***************************************************************************)
MIN_RAM_SIZE == 4
MAX_RAM_SIZE == 64
BYTE_SIZE == 256
WIDTH == 80
HEIGHT == 50

(***************************************************************************)
(* Python's int operators, on the operands the program gives them.         *)
(* x & m for m >= 0 and any x (two's complement, as Python defines it for  *)
(* negative x); x | y and x ^ y for x, y >= 0; shifts by a constant.       *)
(***************************************************************************)
RECURSIVE BitAnd(_, _)
BitAnd(x, m) ==
    IF m = 0 THEN 0
    ELSE (x % 2) * (m % 2) + 2 * BitAnd(x \div 2, m \div 2)

RECURSIVE BitOr(_, _)
BitOr(x, y) ==
    IF x = 0 THEN y
    ELSE IF y = 0 THEN x
    ELSE (IF x % 2 = 1 \/ y % 2 = 1 THEN 1 ELSE 0) + 2 * BitOr(x \div 2, y \div 2)

RECURSIVE BitXor(_, _)
BitXor(x, y) ==
    IF x = 0 THEN y
    ELSE IF y = 0 THEN x
    ELSE (IF x % 2 # y % 2 THEN 1 ELSE 0) + 2 * BitXor(x \div 2, y \div 2)

Shl(x, n) == x * 2^n

Shr(x, n) == x \div 2^n

(***************************************************************************)
(* Python lists of ints: length, indexing, item and slice assignment.      *)
(***************************************************************************)
NoCells == [k \in {} |-> 0]

\* [0] * n
ZeroList(n) == [len |-> n, cells |-> NoCells]

Len_(ram) == ram.len

\* ram[i] raises IndexError unless -len <= i < len
IndexOK(ram, i) == -ram.len <= i /\ i < ram.len

NormIndex(ram, i) == IF i < 0 THEN i + ram.len ELSE i

GetItem(ram, i) ==
    LET j == NormIndex(ram, i)
    IN  IF j \in DOMAIN ram.cells THEN ram.cells[j] ELSE 0

SetItem(ram, i, v) ==
    LET j == NormIndex(ram, i)
        d == IF v = 0 THEN DOMAIN ram.cells \ {j} ELSE DOMAIN ram.cells \cup {j}
    IN  [len |-> ram.len,
         cells |-> [k \in d |-> IF k = j THEN v ELSE ram.cells[k]]]

\* a slice bound, clamped as list slicing clamps it
SliceIndex(ram, i) ==
    IF i < 0 THEN (IF i + ram.len < 0 THEN 0 ELSE i + ram.len)
    ELSE (IF i > ram.len THEN ram.len ELSE i)

\* ram[lo:hi] = data: the slice is replaced by data, whatever its length
SetSlice(ram, lo, hi, data) ==
    LET start == SliceIndex(ram, lo)
        stop0 == SliceIndex(ram, hi)
        stop  == IF stop0 < start THEN start ELSE stop0
        n     == Len(data)
        shift == start + n - stop
        kept  == {k \in DOMAIN ram.cells : k < start \/ k >= stop}
        moved == {IF k < start THEN k ELSE k + shift : k \in kept}
        fresh == {start + i - 1 : i \in {i \in 1..n : data[i] # 0}}
    IN  [len |-> ram.len + shift,
         cells |-> [k \in moved \cup fresh |->
                      IF k >= start /\ k < start + n THEN data[k - start + 1]
                      ELSE IF k < start THEN ram.cells[k]
                      ELSE ram.cells[k - shift]]]

\* len(ram[lo:])
SliceFromLen(ram, lo) == ram.len - SliceIndex(ram, lo)

\* ram[lo:]
GetSliceFrom(ram, lo) ==
    [len |-> SliceFromLen(ram, lo),
     cells |-> [k \in {j - SliceIndex(ram, lo) :
                          j \in {j \in DOMAIN ram.cells : j >= SliceIndex(ram, lo)}} |->
                  ram.cells[k + SliceIndex(ram, lo)]]]

(***************************************************************************)
(* utils.py                                                                *)
(***************************************************************************)
HALT_FLAGS      == [Z |-> FALSE, O |-> FALSE, H |-> TRUE,  N |-> FALSE]
BLANK_FLAGS     == [Z |-> FALSE, O |-> FALSE, H |-> FALSE, N |-> FALSE]
ZERO_FLAGS      == [Z |-> TRUE,  O |-> FALSE, H |-> FALSE, N |-> FALSE]
OVERFLOW_FLAGS  == [Z |-> FALSE, O |-> TRUE,  H |-> FALSE, N |-> FALSE]
NEGATIVE_FLAGS  == [Z |-> FALSE, O |-> FALSE, H |-> FALSE, N |-> TRUE]
OVER_ZERO_FLAGS == [Z |-> TRUE,  O |-> TRUE,  H |-> FALSE, N |-> FALSE]

data_to_memory_location(data) == Shl(data[1], 8) + data[2]

\* set_flags without the case of 256
set_flags_NoOverZero(value) ==
    IF value < 0 THEN NEGATIVE_FLAGS
    ELSE IF value = 0 THEN ZERO_FLAGS
    ELSE IF value > 255 THEN OVERFLOW_FLAGS
    ELSE BLANK_FLAGS

set_flags(value) ==
    IF value < 0 THEN NEGATIVE_FLAGS
    ELSE IF value = 0 THEN ZERO_FLAGS
    ELSE IF value > 255 THEN
        (IF value = 256 THEN OVER_ZERO_FLAGS ELSE OVERFLOW_FLAGS)
    ELSE BLANK_FLAGS

RECURSIVE DoublePower(_, _)
DoublePower(power, n) ==
    IF power < n THEN DoublePower(Shl(power, 1), n) ELSE power

\* defined for n > 0 (the function raises ValueError otherwise)
next_power_of_two(n) ==
    IF BitAnd(n, n - 1) = 0 THEN n ELSE DoublePower(1, n)

Min(a, b) == IF a < b THEN a ELSE b

Max(a, b) == IF a > b THEN a ELSE b

(***************************************************************************)
(* instructions/base.py: validate and the opcode registry.                 *)
(***************************************************************************)
\* validate that does not truncate
\* validate never reporting a zero
validate_NeverZero(value) ==
    [value |-> BitAnd(value, BYTE_SIZE - 1), flags |-> [set_flags(value) EXCEPT !.Z = FALSE]]

validate_NoTruncate(value) == [value |-> value, flags |-> set_flags(value)]

validate(value) == [value |-> BitAnd(value, BYTE_SIZE - 1), flags |-> set_flags(value)]

\* the reserve calls numbered from 1: opcode 0 is then handed to the first class
ReservedOpcodes_FromOne == [opcode \in {1, 2, 3} |->
                      CASE opcode = 1 -> "HLT" [] opcode = 2 -> "CLR" [] opcode = 3 -> "NOP"]

\* OpcodeManager.__init__ followed by the three reserve calls of base.py
ReservedOpcodes == [opcode \in {0, 1, 2} |->
                      CASE opcode = 0 -> "HLT" [] opcode = 1 -> "CLR" [] opcode = 2 -> "NOP"]

OpcodeManager == [reserved |-> ReservedOpcodes, used_opcodes |-> DOMAIN ReservedOpcodes,
                  next_auto |-> 0]

RECURSIVE NextFree(_, _)
NextFree(used, n) == IF n \in used THEN NextFree(used, n + 1) ELSE n

\* get_opcode handing out next_auto without looking at the opcodes in use
get_opcode_NoSkip(m, class_name) ==
    LET res == {o \in DOMAIN m.reserved : m.reserved[o] = class_name}
    IN  IF res # {} THEN [opcode |-> CHOOSE o \in res : TRUE, manager |-> m]
        ELSE [opcode |-> m.next_auto,
              manager |-> [reserved |-> m.reserved,
                           used_opcodes |-> m.used_opcodes \cup {m.next_auto},
                           next_auto |-> m.next_auto + 1]]

\* OpcodeManager.get_opcode: the opcode handed out and the manager afterwards
get_opcode(m, class_name) ==
    LET res == {o \in DOMAIN m.reserved : m.reserved[o] = class_name}
    IN  IF res # {} THEN [opcode |-> CHOOSE o \in res : TRUE, manager |-> m]
        ELSE LET opcode == NextFree(m.used_opcodes, m.next_auto)
             IN  [opcode |-> opcode,
                  manager |-> [reserved |-> m.reserved,
                               used_opcodes |-> m.used_opcodes \cup {opcode},
                               next_auto |-> opcode + 1]]

\* The instruction classes of each module, in the order the module defines them.
ArithmeticClasses ==
    <<"AAX", "AAY", "AXY", "SAX", "SAY", "SXY", "INA", "INX", "INY", "DEA", "DEX", "DEY">>

BitwiseClasses ==
    <<"NAX", "NAY", "NXY", "OAX", "OAY", "OXY", "XAX", "XAY", "XXY",
      "BLA", "BLX", "BLY", "BRA", "BRX", "BRY">>

ComparisonClasses == <<"EAX", "EAY", "EXY">>

ControlClasses ==
    <<"HLT", "CLR", "NOP", "JMP", "JNZ", "JMZ", "JNN", "JMN", "JNO", "JMO",
      "JFA", "JFX", "JFY", "JBA", "JBX", "JBY">>

LoadStoreClasses ==
    <<"LDA", "LDX", "LDY", "CAX", "CAY", "CXY", "CYX", "CXA", "CYA",
      "CAZ", "NAZ", "CAO", "NAO", "CAN", "NAN",
      "CXZ", "NXZ", "CXO", "NXO", "CXN", "NXN",
      "CYZ", "NYZ", "CYO", "NYO", "CYN", "NYN">>

MemoryClasses ==
    <<"WMA", "WMX", "WMY", "RMA", "RMX", "RMY", "RMI", "WMI", "RMO", "WMO",
      "FIL", "CMP", "CPY">>

\* _collect_instructions imports the modules in the order pkgutil lists them
\* (by name, base skipped); each class statement runs __init_subclass__.
ClassOrder ==
    ArithmeticClasses \o BitwiseClasses \o ComparisonClasses \o ControlClasses
        \o LoadStoreClasses \o MemoryClasses

ClassNames == {ClassOrder[i] : i \in DOMAIN ClassOrder}

\* BaseInstruction.__init_subclass__ for the classes ClassOrder[lo..hi], in that order,
\* starting from manager m: cls.opcode of each, and the manager afterwards
RECURSIVE Registered(_, _, _)
Registered(m, lo, hi) ==
    IF lo = hi
    THEN LET got == get_opcode(m, ClassOrder[lo])
         IN  [manager |-> got.manager, opcode |-> [c \in {ClassOrder[lo]} |-> got.opcode]]
    ELSE LET mid   == (lo + hi) \div 2
             left  == Registered(m, lo, mid)
             right == Registered(left.manager, mid + 1, hi)
         IN  IF left.manager.next_auto >= 0   \* the classes lo..mid come first
             THEN [manager |-> right.manager,
                   opcode |-> [c \in DOMAIN left.opcode \cup DOMAIN right.opcode |->
                                 IF c \in DOMAIN left.opcode THEN left.opcode[c]
                                 ELSE right.opcode[c]]]
             ELSE left

NameToOpcode == Registered(OpcodeManager, 1, Len(ClassOrder)).opcode

InstructionSet ==
    [o \in {NameToOpcode[c] : c \in DOMAIN NameToOpcode} |->
        CHOOSE c \in DOMAIN NameToOpcode : NameToOpcode[c] = o]

\* the dispatch list without its default: an opcode no class has is no index of it
InstructionList_NoDefault == InstructionSet

\* [InstructionSet.get(i, InstructionSet[0]) for i in range(256)]
InstructionList ==
    [i \in 0..255 |-> IF i \in DOMAIN InstructionSet THEN InstructionSet[i]
                      ELSE InstructionSet[0]]

\* the length attribute of each instruction class
Length(name) ==
    IF name \in {"JMP", "JNZ", "JMZ", "JNN", "JMN", "JNO", "JMO",
                 "WMA", "WMX", "WMY", "RMA", "RMX", "RMY", "RMO", "WMO", "CMP", "CPY"}
    THEN 2
    ELSE IF name \in {"LDA", "LDX", "LDY", "FIL",
                      "CAZ", "NAZ", "CAO", "NAO", "CAN", "NAN",
                      "CXZ", "NXZ", "CXO", "NXO", "CXN", "NXN",
                      "CYZ", "NYZ", "CYO", "NYO", "CYN", "NYN"}
    THEN 1
    ELSE 0

(***************************************************************************)
(* The run method of each instruction class: what it returns (reg, flags)  *)
(* and the list ram as it leaves it.                                       *)
(***************************************************************************)
Out(reg, flags, ram) == [reg |-> reg, flags |-> flags, ram |-> ram]

\* the assignment that zeroes Y as well
Assigned_ClearsY(r, v, reg, ram) == Out([reg EXCEPT ![r] = v.value, !.Y = 0], v.flags, ram)

\* reg[r], flags = v, for v the pair validate returned
Assigned(r, v, reg, ram) == Out([reg EXCEPT ![r] = v.value], v.flags, ram)

\* the flags taken from the truncated value
Validated_FlagsAfter(r, value, reg, ram) ==
    Assigned(r, validate(BitAnd(value, BYTE_SIZE - 1)), reg, ram)

\* reg[r], flags = validate(value); return reg, flags
Validated(r, value, reg, ram) == Assigned(r, validate(value), reg, ram)

\* the store that leaves every flag false
Flagged_Blank(r, value, reg, ram) == Out([reg EXCEPT ![r] = value], BLANK_FLAGS, ram)

\* reg[r] = value; return reg, set_flags(reg[r])
Flagged(r, value, reg, ram) == Out([reg EXCEPT ![r] = value], set_flags(value), ram)

RunArithmetic(name, reg, flags, data, ram) ==
    CASE name = "AAX" -> Validated("A", reg.A + reg.X, reg, ram)
      [] name = "AAY" -> Validated("A", reg.A + reg.Y, reg, ram)
      [] name = "AXY" -> Validated("X", reg.X + reg.Y, reg, ram)
      [] name = "SAX" -> Validated("A", reg.A - reg.X, reg, ram)
      [] name = "SAY" -> Validated("A", reg.A - reg.Y, reg, ram)
      [] name = "SXY" -> Validated("X", reg.X - reg.Y, reg, ram)
      [] name = "INA" -> Validated("A", reg.A + 1, reg, ram)
      [] name = "INX" -> Validated("X", reg.X + 1, reg, ram)
      [] name = "INY" -> Validated("Y", reg.Y + 1, reg, ram)
      [] name = "DEA" -> Validated("A", reg.A - 1, reg, ram)
      [] name = "DEX" -> Validated("X", reg.X - 1, reg, ram)
      [] name = "DEY" -> Validated("Y", reg.Y - 1, reg, ram)

RunBitwise(name, reg, flags, data, ram) ==
    CASE name = "NAX" -> Flagged("A", BitAnd(reg.A, reg.X), reg, ram)
      [] name = "NAY" -> Flagged("A", BitAnd(reg.A, reg.Y), reg, ram)
      [] name = "NXY" -> Flagged("X", BitAnd(reg.X, reg.Y), reg, ram)
      [] name = "OAX" -> Flagged("A", BitOr(reg.A, reg.X), reg, ram)
      [] name = "OAY" -> Flagged("A", BitOr(reg.A, reg.Y), reg, ram)
      [] name = "OXY" -> Flagged("X", BitOr(reg.X, reg.Y), reg, ram)
      [] name = "XAX" -> Flagged("A", BitXor(reg.A, reg.X), reg, ram)
      [] name = "XAY" -> Flagged("A", BitXor(reg.A, reg.Y), reg, ram)
      [] name = "XXY" -> Flagged("X", BitXor(reg.X, reg.Y), reg, ram)
      [] name = "BLA" -> Validated("A", Shl(reg.A, 1), reg, ram)
      [] name = "BLX" -> Validated("X", Shl(reg.X, 1), reg, ram)
      [] name = "BLY" -> Validated("Y", Shl(reg.Y, 1), reg, ram)
      [] name = "BRA" -> Flagged("A", Shr(reg.A, 1), reg, ram)
      [] name = "BRX" -> Flagged("X", Shr(reg.X, 1), reg, ram)
      [] name = "BRY" -> Flagged("Y", Shr(reg.Y, 1), reg, ram)

\* the comparison that sets or clears Z and keeps the other flags
RunComparison_KeepsFlags(name, reg, flags, data, ram) ==
    Out(reg,
        [flags EXCEPT !.Z = \/ name = "EAX" /\ reg.A = reg.X
                            \/ name = "EAY" /\ reg.A = reg.Y
                            \/ name = "EXY" /\ reg.X = reg.Y],
        ram)

RunComparison(name, reg, flags, data, ram) ==
    CASE name = "EAX" -> Out(reg, IF reg.A # reg.X THEN BLANK_FLAGS ELSE set_flags(0), ram)
      [] name = "EAY" -> Out(reg, IF reg.A # reg.Y THEN BLANK_FLAGS ELSE set_flags(0), ram)
      [] name = "EXY" -> Out(reg, IF reg.X # reg.Y THEN BLANK_FLAGS ELSE set_flags(0), ram)

\* a conditional jump that is taken whatever the flags
JumpIf_Always(cond, reg, data, ram) ==
    Out([reg EXCEPT !.PC = data_to_memory_location(data)], BLANK_FLAGS, ram)

\* if cond: reg['PC'] = data_to_memory_location(data); return reg, BLANK_FLAGS
JumpIf(cond, reg, data, ram) ==
    Out(IF cond THEN [reg EXCEPT !.PC = data_to_memory_location(data)] ELSE reg,
        BLANK_FLAGS, ram)

\* the relative jump without the mask
JumpBy_Unmasked(delta, reg, ram) ==
    Out([reg EXCEPT !.PC = reg.PC + delta], BLANK_FLAGS, ram)

\* reg['PC'] = (reg['PC'] + delta) & (len(ram) - 1); return reg, BLANK_FLAGS
JumpBy(delta, reg, ram) ==
    Out([reg EXCEPT !.PC = BitAnd(reg.PC + delta, Len_(ram) - 1)], BLANK_FLAGS, ram)

RunControl(name, reg, flags, data, ram) ==
    CASE name = "HLT" -> Out(reg, HALT_FLAGS, ram)
      [] name = "CLR" -> Out([reg EXCEPT !.A = 0, !.X = 0, !.Y = 0], BLANK_FLAGS, ram)
      [] name = "NOP" -> Out(reg, BLANK_FLAGS, ram)
      [] name = "JMP" -> JumpIf(TRUE, reg, data, ram)
      [] name = "JNZ" -> JumpIf(~flags.Z, reg, data, ram)
      [] name = "JMZ" -> JumpIf(flags.Z, reg, data, ram)
      [] name = "JNN" -> JumpIf(~flags.N, reg, data, ram)
      [] name = "JMN" -> JumpIf(flags.N, reg, data, ram)
      [] name = "JNO" -> JumpIf(~flags.O, reg, data, ram)
      [] name = "JMO" -> JumpIf(flags.O, reg, data, ram)
      [] name = "JFA" -> JumpBy(reg.A, reg, ram)
      [] name = "JFX" -> JumpBy(reg.X, reg, ram)
      [] name = "JFY" -> JumpBy(reg.Y, reg, ram)
      [] name = "JBA" -> JumpBy(-reg.A, reg, ram)
      [] name = "JBX" -> JumpBy(-reg.X, reg, ram)
      [] name = "JBY" -> JumpBy(-reg.Y, reg, ram)

\* the load whatever the condition
LoadIf_Always(cond, r, reg, data, ram) ==
    Out([reg EXCEPT ![r] = data[1]], BLANK_FLAGS, ram)

\* if cond: reg[r] = data[0]; return reg, BLANK_FLAGS
LoadIf(cond, r, reg, data, ram) ==
    Out(IF cond THEN [reg EXCEPT ![r] = data[1]] ELSE reg, BLANK_FLAGS, ram)

RunLoadStore(name, reg, flags, data, ram) ==
    CASE name = "LDA" -> LoadIf(TRUE, "A", reg, data, ram)
      [] name = "LDX" -> LoadIf(TRUE, "X", reg, data, ram)
      [] name = "LDY" -> LoadIf(TRUE, "Y", reg, data, ram)
      [] name = "CAX" -> Flagged("X", reg.A, reg, ram)
      [] name = "CAY" -> Flagged("Y", reg.A, reg, ram)
      [] name = "CXY" -> Flagged("Y", reg.X, reg, ram)
      [] name = "CYX" -> Flagged("X", reg.Y, reg, ram)
      [] name = "CXA" -> Flagged("A", reg.X, reg, ram)
      [] name = "CYA" -> Flagged("A", reg.Y, reg, ram)
      [] name = "CAZ" -> LoadIf(flags.Z, "A", reg, data, ram)
      [] name = "NAZ" -> LoadIf(~flags.Z, "A", reg, data, ram)
      [] name = "CAO" -> LoadIf(flags.O, "A", reg, data, ram)
      [] name = "NAO" -> LoadIf(~flags.O, "A", reg, data, ram)
      [] name = "CAN" -> LoadIf(flags.N, "A", reg, data, ram)
      [] name = "NAN" -> LoadIf(~flags.N, "A", reg, data, ram)
      [] name = "CXZ" -> LoadIf(flags.Z, "X", reg, data, ram)
      [] name = "NXZ" -> LoadIf(~flags.Z, "X", reg, data, ram)
      [] name = "CXO" -> LoadIf(flags.O, "X", reg, data, ram)
      [] name = "NXO" -> LoadIf(~flags.O, "X", reg, data, ram)
      [] name = "CXN" -> LoadIf(flags.N, "X", reg, data, ram)
      [] name = "NXN" -> LoadIf(~flags.N, "X", reg, data, ram)
      [] name = "CYZ" -> LoadIf(flags.Z, "Y", reg, data, ram)
      [] name = "NYZ" -> LoadIf(~flags.Z, "Y", reg, data, ram)
      [] name = "CYO" -> LoadIf(flags.O, "Y", reg, data, ram)
      [] name = "NYO" -> LoadIf(~flags.O, "Y", reg, data, ram)
      [] name = "CYN" -> LoadIf(flags.N, "Y", reg, data, ram)
      [] name = "NYN" -> LoadIf(~flags.N, "Y", reg, data, ram)

\* the operand address without the mask
AbsLocation_NoMask(data, ram) == data_to_memory_location(data)

\* data_to_memory_location(data) & (len(ram) - 1)
AbsLocation(data, ram) == BitAnd(data_to_memory_location(data), Len_(ram) - 1)

\* (reg['Y'] * 256 + reg['X']) & (len(ram) - 1)
IndexedLocation(reg, ram) == BitAnd(reg.Y * 256 + reg.X, Len_(ram) - 1)

\* (base_addr + reg['X']) & (len(ram) - 1)
OffsetLocation(reg, data, ram) ==
    BitAnd(data_to_memory_location(data) + reg.X, Len_(ram) - 1)

\* FIL's loop stopping one step early
RECURSIVE FillFrom_Short(_, _, _, _, _)
FillFrom_Short(ram, start_location, fill_value, i, count) ==
    IF i + 1 >= count THEN ram
    ELSE FillFrom_Short(SetItem(ram, BitAnd(start_location + i, Len_(ram) - 1), fill_value),
                        start_location, fill_value, i + 1, count)

\* FIL's loop from step i on
RECURSIVE FillFrom(_, _, _, _, _)
FillFrom(ram, start_location, fill_value, i, count) ==
    IF i >= count THEN ram
    ELSE FillFrom(SetItem(ram, BitAnd(start_location + i, Len_(ram) - 1), fill_value),
                  start_location, fill_value, i + 1, count)

\* CMP comparing the first byte only
CompareFrom_FirstOnly(ram, source_location, compare_location, i, count) ==
    i >= count \/ GetItem(ram, BitAnd(source_location + i, Len_(ram) - 1))
                     = GetItem(ram, BitAnd(compare_location + i, Len_(ram) - 1))

\* CMP's loop from step i on: TRUE iff it runs to its end
RECURSIVE CompareFrom(_, _, _, _, _)
CompareFrom(ram, source_location, compare_location, i, count) ==
    IF i >= count THEN TRUE
    ELSE IF GetItem(ram, BitAnd(source_location + i, Len_(ram) - 1))
              # GetItem(ram, BitAnd(compare_location + i, Len_(ram) - 1))
         THEN FALSE
         ELSE CompareFrom(ram, source_location, compare_location, i + 1, count)

\* CPY's loop from step i on
RECURSIVE CopyFrom(_, _, _, _, _)
CopyFrom(ram, source_location, dest_location, i, count) ==
    IF i >= count THEN ram
    ELSE CopyFrom(SetItem(ram, BitAnd(dest_location + i, Len_(ram) - 1),
                          GetItem(ram, BitAnd(source_location + i, Len_(ram) - 1))),
                  source_location, dest_location, i + 1, count)

RunMemory(name, reg, flags, data, ram) ==
    CASE name = "WMA" -> Out(reg, BLANK_FLAGS, SetItem(ram, AbsLocation(data, ram), reg.A))
      [] name = "WMX" -> Out(reg, BLANK_FLAGS, SetItem(ram, AbsLocation(data, ram), reg.X))
      [] name = "WMY" -> Out(reg, BLANK_FLAGS, SetItem(ram, AbsLocation(data, ram), reg.Y))
      [] name = "RMA" ->
            Out([reg EXCEPT !.A = GetItem(ram, AbsLocation(data, ram))], BLANK_FLAGS, ram)
      [] name = "RMX" ->
            Out([reg EXCEPT !.X = GetItem(ram, AbsLocation(data, ram))], BLANK_FLAGS, ram)
      [] name = "RMY" ->
            Out([reg EXCEPT !.Y = GetItem(ram, AbsLocation(data, ram))], BLANK_FLAGS, ram)
      [] name = "RMI" -> Flagged("A", GetItem(ram, IndexedLocation(reg, ram)), reg, ram)
      [] name = "WMI" -> Out(reg, BLANK_FLAGS, SetItem(ram, IndexedLocation(reg, ram), reg.A))
      [] name = "RMO" -> Flagged("A", GetItem(ram, OffsetLocation(reg, data, ram)), reg, ram)
      [] name = "WMO" ->
            Out(reg, BLANK_FLAGS, SetItem(ram, OffsetLocation(reg, data, ram), reg.A))
      [] name = "FIL" ->
            Out(reg, BLANK_FLAGS, FillFrom(ram, IndexedLocation(reg, ram), data[1], 0, reg.A))
      [] name = "CMP" ->
            Out(reg,
                IF CompareFrom(ram, IndexedLocation(reg, ram), AbsLocation(data, ram), 0, reg.A)
                THEN ZERO_FLAGS ELSE BLANK_FLAGS,
                ram)
      [] name = "CPY" ->
            Out(reg, BLANK_FLAGS,
                CopyFrom(ram, IndexedLocation(reg, ram), AbsLocation(data, ram), 0, reg.A))

InSeq(name, s) == \E i \in DOMAIN s : s[i] = name

\* instruction.run(reg, flags, data, ram), instruction being the class called name
Run(name, reg, flags, data, ram) ==
    CASE InSeq(name, ArithmeticClasses) -> RunArithmetic(name, reg, flags, data, ram)
      [] InSeq(name, BitwiseClasses)    -> RunBitwise(name, reg, flags, data, ram)
      [] InSeq(name, ComparisonClasses) -> RunComparison(name, reg, flags, data, ram)
      [] InSeq(name, ControlClasses)    -> RunControl(name, reg, flags, data, ram)
      [] InSeq(name, LoadStoreClasses)  -> RunLoadStore(name, reg, flags, data, ram)
      [] InSeq(name, MemoryClasses)     -> RunMemory(name, reg, flags, data, ram)

(***************************************************************************)
(* cpu.py: class CPU.  An engine is the record of its attributes; frames   *)
(* counts the draw calls its Display has completed.                        *)
(***************************************************************************)
\* len(Display()): WIDTH * HEIGHT of the default display
DisplayLen == WIDTH * HEIGHT

\* Display.interval, 1.0 / fps, in steps of the clock
Interval == 2

\* Display.__init__: last_drawn = 0.0 and nothing printed; time is what time() returns,
\* more than an interval after 0.0
NewDisplay == [time |-> Interval, last_drawn |-> 0, printed |-> ZeroList(0)]

GPU_SIZE(self) == IF self.GPU THEN DisplayLen ELSE -1

\* the display is given the whole memory
GPU_OFFSET_Start(self) == IF self.GPU THEN 0 ELSE -1

GPU_OFFSET(self) == IF self.GPU THEN self.RAM_SIZE - GPU_SIZE(self) ELSE -1

\* __init__ without the upper clamp
new_NoMaximum(k, gpu) ==
    [RAM_SIZE |-> next_power_of_two(Max(MIN_RAM_SIZE, k)) * 1024,
     RAM      |-> ZeroList(next_power_of_two(Max(MIN_RAM_SIZE, k)) * 1024),
     GPU      |-> gpu,
     REG      |-> [A |-> 0, X |-> 0, Y |-> 0, PC |-> 0],
     FLAGS    |-> BLANK_FLAGS,
     TICKS    |-> 0,
     frames   |-> 0,
     display  |-> NewDisplay]

\* CPU.__init__(ram_size, gpu)
new(k, gpu) ==
    LET size == next_power_of_two(Min(MAX_RAM_SIZE, Max(MIN_RAM_SIZE, k))) * 1024
    IN  [RAM_SIZE |-> size,
         RAM      |-> ZeroList(size),
         GPU      |-> gpu,
         REG      |-> [A |-> 0, X |-> 0, Y |-> 0, PC |-> 0],
         FLAGS    |-> BLANK_FLAGS,
         TICKS    |-> 0,
         frames   |-> 0,
         display  |-> NewDisplay]

\* halted reading the zero flag
halted_ZeroFlag(self) == self.FLAGS.Z

\* the property CPU.halted
halted(self) == self.FLAGS.H

\* CPU.fetch: the byte read and the engine afterwards, provided RAM[PC] exists
fetch(self) ==
    [data |-> GetItem(self.RAM, self.REG.PC),
     self |-> [self EXCEPT !.REG.PC = BitAnd(self.REG.PC + 1, self.RAM_SIZE - 1)]]

\* [self.fetch() for _ in range(n)]: raised is TRUE when a fetch raised IndexError
RECURSIVE FetchData(_, _)
Fetched(f, rest) ==
    [raised |-> rest.raised, data |-> <<f.data>> \o rest.data, self |-> rest.self]

FetchNext(f, n) == Fetched(f, FetchData(f.self, n))

FetchData(self, n) ==
    IF n = 0 THEN [raised |-> FALSE, data |-> <<>>, self |-> self]
    ELSE IF ~IndexOK(self.RAM, self.REG.PC) THEN [raised |-> TRUE, data |-> <<>>, self |-> self]
    ELSE FetchNext(fetch(self), n - 1)

Decoded(instruction, operands) ==
    [raised |-> operands.raised, instruction |-> instruction,
     data |-> operands.data, self |-> operands.self]

\* CPU.decode, provided InstructionList[opcode] exists
decode(self, opcode) ==
    Decoded(InstructionList[opcode], FetchData(self, Length(InstructionList[opcode])))

\* the registers and flags are stored, the write to memory is lost
Executed_WriteLost(self, r) == [self EXCEPT !.REG = r.reg, !.FLAGS = r.flags]

\* self.REG, self.FLAGS = r, for r what instruction.run returned
Executed(self, r) == [self EXCEPT !.REG = r.reg, !.FLAGS = r.flags, !.RAM = r.ram]

\* CPU.execute
execute(self, instruction, data) ==
    Executed(self, Run(instruction, self.REG, self.FLAGS, data, self.RAM))

\* Display.should_draw
should_draw(self) == ~(self.display.time - self.display.last_drawn < Interval)

\* a display that leaves the number of its frames in A
draw_FramesInA(self) ==
    [raised |-> "none", self |-> [self EXCEPT !.frames = @ + 1, !.REG.A = self.frames % 256]]

\* Display.draw(self.RAM[self.GPU_OFFSET:]): its assert fails on a slice of another
\* length; otherwise last_drawn = time() and the data is printed
draw(self) ==
    IF SliceFromLen(self.RAM, GPU_OFFSET(self)) = DisplayLen
    THEN [raised |-> "none",
          self |-> [self EXCEPT !.frames = @ + 1,
                                !.display.last_drawn = self.display.time,
                                !.display.printed = GetSliceFrom(self.RAM, GPU_OFFSET(self))]]
    ELSE [raised |-> "AssertionError", self |-> self]

Outcome(self, raised, instr) == [self |-> self, raised |-> raised, instr |-> instr]

\* CPU.tick from "if self.GPU" on; g is what draw did
TickDrawn(g, instruction) == Outcome(g.self, g.raised, instruction)

\* CPU.tick from "self.TICKS += 1" on
TickCounted(self, instruction) ==
    IF self.GPU THEN TickDrawn(draw(self), instruction)
    ELSE Outcome(self, "none", instruction)

\* CPU.tick from "self.execute" on; d is what decode returned
TickDecoded(d) ==
    IF d.raised THEN Outcome(d.self, "IndexError", "none")
    ELSE TickCounted([execute(d.self, d.instruction, d.data) EXCEPT !.TICKS = @ + 1],
                     d.instruction)

\* CPU.tick from "self.decode" on; f is what fetch returned
TickFetched(f) ==
    IF f.data \notin DOMAIN InstructionList THEN Outcome(f.self, "IndexError", "none")
    ELSE TickDecoded(decode(f.self, f.data))

\* tick without the early return of a halted engine
tick_NoHaltedReturn(self) ==
    IF ~IndexOK(self.RAM, self.REG.PC) THEN Outcome(self, "IndexError", "none")
    ELSE TickFetched(fetch(self))

\* CPU.tick: the engine afterwards, the exception that ended the call ("none" when it
\* returned) and the class of the instruction it executed ("none" when it executed none)
tick(self) ==
    IF halted(self) THEN Outcome(self, "none", "none")
    ELSE IF ~IndexOK(self.RAM, self.REG.PC) THEN Outcome(self, "IndexError", "none")
    ELSE TickFetched(fetch(self))

\* reset that also restarts the tick counter
reset_ClearsTicks(self) ==
    [self EXCEPT !.REG = [A |-> 0, X |-> 0, Y |-> 0, PC |-> 0],
                 !.FLAGS = BLANK_FLAGS,
                 !.RAM = ZeroList(self.RAM_SIZE),
                 !.TICKS = 0]

\* CPU.reset
reset(self) ==
    [self EXCEPT !.REG = [A |-> 0, X |-> 0, Y |-> 0, PC |-> 0],
                 !.FLAGS = BLANK_FLAGS,
                 !.RAM = ZeroList(self.RAM_SIZE)]

\* load_data that refuses data ending exactly at the end of memory
load_data_Strict(self, data, offset) ==
    IF offset + Len(data) < self.RAM_SIZE
    THEN Outcome([self EXCEPT !.RAM = SetSlice(self.RAM, offset, offset + Len(data), data)],
                 "none", "none")
    ELSE Outcome(self, "ValueError", "none")

\* load_data putting data before the cell at offset instead of over it
load_data_Inserts(self, data, offset) ==
    IF offset + Len(data) <= self.RAM_SIZE
    THEN Outcome([self EXCEPT !.RAM = SetSlice(self.RAM, offset, offset, data)],
                 "none", "none")
    ELSE Outcome(self, "ValueError", "none")

\* CPU.load_data(data, offset)
load_data(self, data, offset) ==
    IF offset + Len(data) <= self.RAM_SIZE
    THEN Outcome([self EXCEPT !.RAM = SetSlice(self.RAM, offset, offset + Len(data), data)],
                 "none", "none")
    ELSE Outcome(self, "ValueError", "none")

(***************************************************************************)
(* The engine as a state machine: construction, then any sequence of       *)
(* tick, reset and load_data calls.                                        *)
(***************************************************************************)
Self ==
    [RAM_SIZE |-> RAM_SIZE, RAM |-> RAM, GPU |-> GPU, REG |-> REG, FLAGS |-> FLAGS,
     TICKS |-> TICKS, frames |-> frames, display |-> display]

Becomes(self) ==
    /\ RAM_SIZE' = self.RAM_SIZE
    /\ RAM' = self.RAM
    /\ GPU' = self.GPU
    /\ REG' = self.REG
    /\ FLAGS' = self.FLAGS
    /\ TICKS' = self.TICKS
    /\ frames' = self.frames
    /\ display' = self.display

\* no call of CPU.run yet; else at is where the call is ("loop", "returned", "raised"),
\* since the ticks counted when it began, turns the turns of its loop so far, raised the
\* exception that left it, interrupted whether a KeyboardInterrupt ended it, and calls
\* the number of calls so far
NoRun ==
    [at |-> "idle", report_interval |-> 1, since |-> 0, turns |-> 0, raised |-> "none",
     interrupted |-> FALSE, calls |-> 0]

Called(op, raised, instr, data, offset) ==
    [op |-> op, raised |-> raised, instr |-> instr, data |-> data, offset |-> offset]

\* the sizes an engine can have
RamSizes == {4, 8, 16, 32, 64}

\* the byte streams load_data is given: nothing, a byte that names no instruction, an
\* instruction whose operand is the cell after it, a jump to the first cell, and a jump
\* to 65535 (the last cell of a 64 KiB memory, beyond the end of a smaller one)
Programs ==
    {<<>>,
     <<255>>,
     <<NameToOpcode["LDA"]>>,
     <<NameToOpcode["JMP"], 0, 0>>,
     <<NameToOpcode["JMP"], 255, 255>>}

\* the offsets load_data is given: the first two cells and the last one
Offsets(size) == {0, 1, size - 1}

Constructed(sizes) ==
    \E k \in sizes, gpu \in BOOLEAN :
        \E self \in {new(k, gpu)} :
            /\ ram_size = k
            /\ RAM_SIZE = self.RAM_SIZE
            /\ RAM = self.RAM
            /\ GPU = self.GPU
            /\ REG = self.REG
            /\ FLAGS = self.FLAGS
            /\ TICKS = self.TICKS
            /\ frames = self.frames
            /\ display = self.display
            /\ call = Called("new", "none", "none", <<>>, 0)
            /\ run = NoRun
            /\ loads = 0

Init == Constructed(RamSizes)

\* the call op(data, offset) ended as r says
Returned(op, r, data, offset) ==
    /\ Becomes(r.self)
    /\ call' = Called(op, r.raised, r.instr, data, offset)

Tick ==
    /\ halted(Self) \/ TICKS < MaxTicks
    /\ Returned("tick", tick(Self), <<>>, 0)
    /\ UNCHANGED <<ram_size, loads, run>>

Reset ==
    /\ Becomes(reset(Self))
    /\ call' = Called("reset", "none", "none", <<>>, 0)
    /\ UNCHANGED <<ram_size, loads, run>>

LoadData ==
    /\ loads < MaxLoads
    /\ \E data \in Programs, offset \in Offsets(RAM_SIZE) :
        Returned("load_data", load_data(Self, data, offset), data, offset)
    /\ loads' = loads + 1
    /\ UNCHANGED <<ram_size, run>>

Next == Tick \/ Reset \/ LoadData

Spec == Init /\ [][Next]_vars

\* construction with any requested size, then ticks and resets of the zeroed engine
InitAnySize == Constructed(-2..MaxReq)

NextFresh == Tick \/ Reset

SpecFresh == InitAnySize /\ [][NextFresh]_vars

\* one program loaded into the new engine, then ticks: the program is any byte b as the
\* first opcode, or LDA 7 and then any byte b as the second opcode
OpcodePrograms ==
    {<<b>> : b \in 0..BYTE_SIZE - 1} \cup {<<NameToOpcode["LDA"], 7, b>> : b \in 0..BYTE_SIZE - 1}

LoadOpcode ==
    /\ call.op = "new"
    /\ \E data \in OpcodePrograms : Returned("load_data", load_data(Self, data, 0), data, 0)
    /\ loads' = loads + 1
    /\ UNCHANGED <<ram_size, run>>

NextOpcode == Tick \/ LoadOpcode

SpecOpcode == Init /\ [][NextOpcode]_vars

(***************************************************************************)
(* instruction.run as a function of the registers: the register files it   *)
(* is given, and one call of CPU.execute on each.                          *)
(***************************************************************************)
\* A and X are any two bytes and Y is their sum mod 256, so that each of the pairs
\* (A, X), (A, Y) and (X, Y) takes every pair of bytes
RegisterFiles ==
    {[A |-> a, X |-> b, Y |-> (a + b) % BYTE_SIZE, PC |-> 0] :
        a \in 0..BYTE_SIZE - 1, b \in 0..BYTE_SIZE - 1}

\* the instructions that go through validate
ValidatingClasses ==
    {ArithmeticClasses[i] : i \in DOMAIN ArithmeticClasses} \cup {"BLA", "BLX", "BLY"}

\* the engine is self
Is(self) ==
    /\ RAM_SIZE = self.RAM_SIZE
    /\ RAM = self.RAM
    /\ GPU = self.GPU
    /\ REG = self.REG
    /\ FLAGS = self.FLAGS
    /\ TICKS = self.TICKS
    /\ frames = self.frames
    /\ display = self.display

\* an engine of the smallest size whose registers hold one of the register files
InitRegisters ==
    \E reg \in RegisterFiles :
        /\ ram_size = MIN_RAM_SIZE
        /\ Is([new(MIN_RAM_SIZE, FALSE) EXCEPT !.REG = reg])
        /\ call = Called("new", "none", "none", <<>>, 0)
        /\ run = NoRun
        /\ loads = 0

\* CPU.execute(instruction, []) for an instruction without operands
Execute ==
    /\ call.op = "new"
    /\ \E name \in ValidatingClasses :
          /\ Becomes(execute(Self, name, <<>>))
          /\ call' = Called("execute", "none", name, <<>>, 0)
    /\ UNCHANGED <<ram_size, loads, run>>

SpecExecute == InitRegisters /\ [][Execute]_vars

(***************************************************************************)
(* Programs run from cell 0 of a new engine: one program is loaded, then   *)
(* the engine ticks until it halts.                                        *)
(***************************************************************************)
\* the opcode of the class called name
Op(name) == NameToOpcode[name]

\* a 16-bit address as the two operand bytes, high byte first
address_to_bytes(addr) == <<(addr \div BYTE_SIZE) % BYTE_SIZE, addr % BYTE_SIZE>>

\* a load, the write and the read of one register, and the register
AbsolutePairs ==
    {<<"LDA", "WMA", "RMA", "A">>, <<"LDX", "WMX", "RMX", "X">>, <<"LDY", "WMY", "RMY", "Y">>}

\* the values written, and the addresses written to: 4352 and 65535 are beyond the end
\* of a 4 KiB memory
RoundTripValues == {42, 255}

RoundTripAddresses == {256, 4095, 4352, 65535}

\* load a register with v, write it to addr, clear the registers, read addr back
AbsoluteRoundTrip(t, v, addr) ==
    <<Op(t[1]), v, Op(t[2])>> \o address_to_bytes(addr) \o <<Op("CLR"), Op(t[3])>>
        \o address_to_bytes(addr) \o <<Op("HLT")>>

\* write A = v to the cell X = x and Y = y name, load A with 0, read the cell back
IndexedRoundTrip(x, y, v) ==
    <<Op("LDX"), x, Op("LDY"), y, Op("LDA"), v, Op("WMI"), Op("LDA"), 0, Op("RMI"),
      Op("HLT")>>

\* write A = v to the cell at base + X, load A with 0, read the cell back
OffsetRoundTrip(x, v, base) ==
    <<Op("LDX"), x, Op("LDA"), v, Op("WMO")>> \o address_to_bytes(base)
        \o <<Op("LDA"), 0, Op("RMO")>> \o address_to_bytes(base) \o <<Op("HLT")>>

IndexBytes == {0, 255}

HighBytes == {1, 16, 255}

RoundTrips ==
    {AbsoluteRoundTrip(t, v, addr) :
        t \in AbsolutePairs, v \in RoundTripValues, addr \in RoundTripAddresses}
    \cup {IndexedRoundTrip(x, y, v) : x \in IndexBytes, y \in HighBytes, v \in RoundTripValues}
    \cup {OffsetRoundTrip(x, v, base) :
            x \in IndexBytes, v \in RoundTripValues, base \in RoundTripAddresses}

\* instructions that leave no flag set, Z alone, N alone, O alone, and Z with O
FlagSetters ==
    {<<Op("LDA"), 5>>,
     <<Op("LDA"), 1, Op("DEA")>>,
     <<Op("LDX"), 7, Op("DEA")>>,
     <<Op("LDA"), 200, Op("LDX"), 100, Op("AAX")>>,
     <<Op("LDA"), 255, Op("INA")>>}

ConditionalJumps == {"JNZ", "JMZ", "JNN", "JMN", "JNO", "JMO"}

\* set the flags, then a conditional jump to a cell of every memory or to 65535
JumpPrograms ==
    {setter \o <<Op(jump)>> \o address_to_bytes(target) \o <<Op("HLT")>> :
        setter \in FlagSetters, jump \in ConditionalJumps, target \in {256, 65535}}

\* the byte counts of the block instructions
Counts == {0, 1, 3, 16}

\* A = count, X and Y = the low and high byte of source, then the block instruction
\* with its operand bytes
BlockProgram(count, source, name, operand) ==
    <<Op("LDA"), count, Op("LDX"), source % BYTE_SIZE, Op("LDY"), source \div BYTE_SIZE,
      Op(name)>> \o operand \o <<Op("HLT")>>

FillPrograms ==
    {BlockProgram(count, start, "FIL", <<v>>) :
        count \in Counts, start \in {256, 4094, 65534}, v \in {0, 170}}

\* where the blocks start: cells of every memory (0, 2, 256), the last but one cell of a
\* 4 KiB memory and the first address after it, the last but one cell of a 64 KiB memory
BlockAddresses == {0, 2, 256, 4094, 4096, 65534}

ComparePrograms ==
    {BlockProgram(count, source, "CMP", address_to_bytes(dest)) :
        count \in Counts, source \in BlockAddresses, dest \in BlockAddresses}

CopyPrograms ==
    {BlockProgram(count, source, "CPY", address_to_bytes(dest)) :
        count \in Counts, source \in BlockAddresses, dest \in BlockAddresses}

\* LDX v; WMX $0005 and HLT in cell 5: the write puts v where PC points after it
Overwrite(v) == <<Op("LDX"), v, Op("WMX"), 0, 5, Op("HLT"), Op("HLT")>>

\* LDY 77; WMY $0006; LDA 0: the write puts 77 over the operand of the LDA after it
OverwriteOperand == <<Op("LDY"), 77, Op("WMY"), 0, 6, Op("LDA"), 0, Op("HLT")>>

TestPrograms ==
    RoundTrips \cup JumpPrograms
        \cup FillPrograms \cup ComparePrograms \cup CopyPrograms
        \cup {Overwrite(v) : v \in 0..BYTE_SIZE - 1} \cup {OverwriteOperand}

LoadProgram ==
    /\ call.op = "new"
    /\ \E data \in TestPrograms : Returned("load_data", load_data(Self, data, 0), data, 0)
    /\ loads' = loads + 1
    /\ UNCHANGED <<ram_size, run>>

\* CPU.run: tick until the engine is halted; call.data stays the program that was loaded
RunTick ==
    /\ ~halted(Self)
    /\ TICKS < MaxRunTicks
    /\ Returned("tick", tick(Self), call.data, 0)
    /\ UNCHANGED <<ram_size, loads, run>>

NextProgram == LoadProgram \/ RunTick

SpecProgram == Init /\ [][NextProgram]_vars

\* a program is loaded, then ticks and resets in any order
NextMemory == LoadProgram \/ RunTick \/ Reset

SpecMemory == Init /\ [][NextMemory]_vars

\* programs for an engine with a display: two writes to the last cells of memory, which
\* the display shows, and one that writes nothing
DisplayPrograms ==
    {<<Op("LDA"), 65, Op("WMA"), 255, 255, Op("INA"), Op("WMA"), 255, 254, Op("HLT")>>,
     <<Op("NOP"), Op("NOP"), Op("HLT")>>}

LoadDisplayed ==
    /\ call.op = "new"
    /\ \E data \in DisplayPrograms : Returned("load_data", load_data(Self, data, 0), data, 0)
    /\ loads' = loads + 1
    /\ UNCHANGED <<ram_size, run>>

\* time passes between two calls: time() returns more than before
Elapse ==
    /\ display.time < MaxTime
    /\ display' = [display EXCEPT !.time = @ + 1]
    /\ UNCHANGED <<ram_size, RAM_SIZE, RAM, GPU, REG, FLAGS, TICKS, frames, call, run, loads>>

NextDisplay == LoadDisplayed \/ RunTick \/ Elapse

SpecDisplay == Init /\ [][NextDisplay]_vars

(***************************************************************************)
(* CPU.run(report_interval): the loop, turn by turn, and the                *)
(* KeyboardInterrupt that can reach it at any point of a turn.             *)
(***************************************************************************)
\* the report intervals run is called with
Intervals == {0, 1, 2, 1000000}

\* cpu.run(report_interval)
RunCall ==
    /\ run.at \in {"idle", "returned"}
    /\ call.op # "new"
    /\ run.calls < MaxRuns
    /\ \E report_interval \in Intervals :
          run' = [at |-> "loop", report_interval |-> report_interval, since |-> TICKS,
                  turns |-> 0, raised |-> "none", interrupted |-> FALSE,
                  calls |-> run.calls + 1]
    /\ UNCHANGED <<ram_size, RAM_SIZE, RAM, GPU, REG, FLAGS, TICKS, frames, display, call, loads>>

\* how a turn of the loop goes on after self.tick() ended as r says:
\* if self.TICKS % report_interval == 0: print(self)
RunChecked(r) ==
    IF r.raised # "none" THEN [run EXCEPT !.at = "raised", !.raised = r.raised]
    ELSE IF run.report_interval = 0
    THEN [run EXCEPT !.at = "raised", !.raised = "ZeroDivisionError", !.turns = @ + 1]
    ELSE [run EXCEPT !.turns = @ + 1]

\* one turn of "while not self.halted"
RunTurn ==
    /\ run.at = "loop"
    /\ ~halted(Self)
    /\ \E r \in {tick(Self)} :
          /\ Returned("tick", r, call.data, 0)
          /\ run' = RunChecked(r)
    /\ UNCHANGED <<ram_size, loads>>

\* the loop ends, the final state is printed and run returns
RunReturn ==
    /\ run.at = "loop"
    /\ halted(Self)
    /\ run' = [run EXCEPT !.at = "returned"]
    /\ UNCHANGED <<ram_size, RAM_SIZE, RAM, GPU, REG, FLAGS, TICKS, frames, display, call, loads>>

\* the engines a KeyboardInterrupt during a turn can leave: the one before the tick, the
\* one after fetch, and the one after execute whose tick is not yet counted
Interrupted(self) ==
    {self}
    \cup (IF halted(self) \/ ~IndexOK(self.RAM, self.REG.PC) THEN {}
          ELSE {fetch(self).self}
               \cup {execute(d.self, d.instruction, d.data) :
                        d \in {d \in {decode(fetch(self).self, fetch(self).data)} : ~d.raised}})

\* except KeyboardInterrupt: the message and the final state are printed and run returns
Interrupt ==
    /\ run.at = "loop"
    /\ \E self \in Interrupted(Self) : Becomes(self)
    /\ run' = [run EXCEPT !.at = "returned", !.interrupted = TRUE]
    /\ UNCHANGED <<ram_size, call, loads>>

NextRun == LoadDisplayed \/ RunCall \/ RunTurn \/ RunReturn \/ Interrupt

SpecRun == Init /\ [][NextRun]_vars

(***************************************************************************)
(* tests.py: test_instruction.  One instruction is set up at PC on a new   *)
(* 4 KiB engine with given registers and flags, then the engine ticks.     *)
(***************************************************************************)
\* the register values, the flags and the operand bytes of the test cases
TestBytes == {0, 1, 85, 128, 255}

TestFlags ==
    {BLANK_FLAGS, ZERO_FLAGS, OVERFLOW_FLAGS, NEGATIVE_FLAGS, OVER_ZERO_FLAGS, HALT_FLAGS}

TestData(name) ==
    CASE Length(name) = 0 -> {<<>>}
      [] Length(name) = 1 -> {<<0>>, <<77>>, <<255>>}
      [] Length(name) = 2 -> {<<0, 0>>, <<1, 0>>, <<255, 255>>}

\* the instruction at cell 0, or in the last cells of memory
TestLocations(name) == {0, RAM_SIZE - 1 - Length(name)}

\* the instructions that walk over A cells
BlockClasses == {"FIL", "CMP", "CPY"}

\* the most cells a block instruction of a test case walks over
MaxBlock == 1

\* setup_cpu_for_instruction on the engine CPU(ram_size_kb) just made
setup_cpu_for_instruction(self, name, registers, flags, data) ==
    [load_data(self, <<Op(name)>> \o data, registers.PC).self
        EXCEPT !.REG = registers, !.FLAGS = flags]

Setup ==
    /\ call.op = "new"
    /\ \E name \in DOMAIN NameToOpcode, flags \in TestFlags, a \in TestBytes,
          x \in TestBytes, y \in TestBytes :
          \E data \in TestData(name), pc \in TestLocations(name) :
             /\ name \in BlockClasses => a <= MaxBlock
             /\ Becomes(setup_cpu_for_instruction(
                            Self, name, [A |-> a, X |-> x, Y |-> y, PC |-> pc], flags, data))
             /\ call' = Called("setup", "none", name, <<Op(name)>> \o data, pc)
    /\ loads' = loads + 1
    /\ UNCHANGED <<ram_size, run>>

\* cpu.tick() of test_instruction
TestTick ==
    /\ call.op = "setup"
    /\ Returned("tick", tick(Self), call.data, call.offset)
    /\ UNCHANGED <<ram_size, loads, run>>

NextTest == Setup \/ TestTick

\* CPU(ram_size=ram_size_kb) without a display, for the smallest and the largest memory
InitTest == Constructed({MIN_RAM_SIZE, MAX_RAM_SIZE}) /\ ~GPU

SpecTest == InitTest /\ [][NextTest]_vars

(***************************************************************************)
(* compiler.py.  A source text is the sequence of its statements, as the   *)
(* Lexer delivers them: a LABEL token, or an INSTRUCTION token with the    *)
(* value tokens that follow it on its line.                                *)
(***************************************************************************)
\* the value tokens: a decimal number, a name or an operator
Number(n) == [type |-> "NUMBER", number |-> n]

Identifier(name) == [type |-> "IDENTIFIER", name |-> name]

\* $HHHH, as the sequence of its hexadecimal digits
HexNumber(digits) == [type |-> "HEX_NUMBER", digits |-> digits]

Label(name) == [type |-> "LABEL", value |-> name]

\* a statement that starts with a word that names no instruction
Unknown(name, parameters) ==
    [type |-> "IDENTIFIER", value |-> name, parameters |-> parameters]

Instruction(name, parameters) ==
    [type |-> "INSTRUCTION", value |-> name, parameters |-> parameters]

\* a parameter as parse_value returns it: an int, or the str of an unknown identifier
IntParam(n) == [int |-> TRUE, value |-> n]

StrParam(name) == [int |-> FALSE, value |-> name]

\* Symbol(name, value, 'label', line)
Symbol(value, type) == [value |-> value, type |-> type]

\* Parser.__init__
Parser == [symbols |-> [name \in {} |-> Symbol(0, "label")], instructions |-> <<>>,
           raised |-> FALSE]

\* int(digits, 16) for the digits of a HEX_NUMBER token, most significant first
RECURSIVE HexValue(_)
HexValue(digits) ==
    IF digits = <<>> THEN 0
    ELSE 16 * HexValue(SubSeq(digits, 1, Len(digits) - 1)) + digits[Len(digits)]

\* Parser.parse_value for a single token
SingleValue(self, token) ==
    IF token.type = "NUMBER" THEN IntParam(token.number)
    ELSE IF token.type = "HEX_NUMBER" THEN IntParam(HexValue(token.digits))
    ELSE IF token.name \in DOMAIN self.symbols
         THEN IntParam(self.symbols[token.name].value)
         ELSE StrParam(token.name)

\* the expressions evaluate_expression is given here and does evaluate: two decimal
\* numbers with + or * between them; it raises on decimal numbers without an operator
Evaluable(parts) ==
    /\ Len(parts) = 3
    /\ parts[1].type = "NUMBER" /\ parts[3].type = "NUMBER"
    /\ parts[2].type = "IDENTIFIER" /\ parts[2].name \in {"+", "*"}

\* Parser.evaluate_expression on the joined parts
evaluate_expression(parts) ==
    IF parts[2].name = "+" THEN parts[1].number + parts[3].number
    ELSE parts[1].number * parts[3].number

\* Parser.parse_value: the value tokens up to the end of the line are one value
parse_value(self, parts) ==
    IF Len(parts) = 1 THEN SingleValue(self, parts[1])
    ELSE IntParam(evaluate_expression(parts))

\* Parser.validate_instruction_parameters: TRUE iff it raises no CompilerError
validate_instruction_parameters(instruction_name, params) ==
    CASE Length(instruction_name) = 2 ->
            /\ Len(params) = 1
            /\ params[1].int => params[1].value \in 0..65535
      [] Length(instruction_name) = 1 ->
            /\ Len(params) = 1
            /\ params[1].int => params[1].value \in 0..255
      [] Length(instruction_name) = 0 -> Len(params) = 0

\* Parser.parse_instruction from validate_instruction_parameters on
Validated_(self, token, parameters) ==
    IF ~validate_instruction_parameters(token.value, parameters)
    THEN [self EXCEPT !.raised = TRUE]
    ELSE [self EXCEPT !.instructions =
             Append(@, [name |-> token.value, parameters |-> parameters])]

\* Parser.parse_instruction
parse_instruction(self, token) ==
    IF token.parameters = <<>> THEN Validated_(self, token, <<>>)
    ELSE IF Len(token.parameters) > 1 /\ ~Evaluable(token.parameters)
         THEN [self EXCEPT !.raised = TRUE]
         ELSE Validated_(self, token, <<parse_value(self, token.parameters)>>)

\* a label that marks the instruction after the next one
parse_label_NextInstruction(self, token) ==
    [self EXCEPT !.symbols =
        [name \in DOMAIN @ \cup {token.value} |->
            IF name = token.value
            THEN Symbol(Len(self.instructions) + 1, "label")
            ELSE @[name]]]

\* Parser.parse_label
parse_label(self, token) ==
    [self EXCEPT !.symbols =
        [name \in DOMAIN @ \cup {token.value} |->
            IF name = token.value
            THEN Symbol(Len(self.instructions), "label")
            ELSE @[name]]]

\* one turn of the loop of Parser.parse, second pass: an identifier that starts a
\* statement is no macro and raises
ParseStatement(self, token) ==
    IF self.raised THEN self
    ELSE IF token.type = "LABEL" THEN parse_label(self, token)
    ELSE IF token.type = "INSTRUCTION" THEN parse_instruction(self, token)
    ELSE [self EXCEPT !.raised = TRUE]

\* Parser.parse, second pass, over the statements lo..hi: the parser after the
\* statements lo..mid is a value before the statements after mid are parsed
RECURSIVE parse(_, _, _, _)
parse(self, tokens, lo, hi) ==
    IF lo > hi THEN self
    ELSE IF lo = hi THEN ParseStatement(self, tokens[lo])
    ELSE CHOOSE parser \in {parse(half, tokens, (lo + hi) \div 2 + 1, hi) :
                               half \in {parse(self, tokens, lo, (lo + hi) \div 2)}} : TRUE

\* CodeGenerator.resolve_label_addresses, for one parameter
resolve_label_addresses(symbols, param) ==
    IF ~param.int /\ param.value \in DOMAIN symbols /\ symbols[param.value].type = "label"
    THEN IntParam(symbols[param.value].value)
    ELSE param

\* the address with its low byte first
ParamBytes_LowFirst(instruction, param) ==
    IF Length(instruction.name) = 2 /\ Len(instruction.parameters) = 1
    THEN <<BitAnd(param.value, 255), BitAnd(Shr(param.value, 8), 255)>>
    ELSE <<BitAnd(param.value, 255)>>

\* one byte for every parameter, an address too
ParamBytes_LowByte(instruction, param) == <<BitAnd(param.value, 255)>>

\* the bytes CodeGenerator.generate appends for one resolved parameter
ParamBytes(instruction, param) ==
    IF Length(instruction.name) = 2 /\ Len(instruction.parameters) = 1
    THEN <<BitAnd(Shr(param.value, 8), 255), BitAnd(param.value, 255)>>
    ELSE <<BitAnd(param.value, 255)>>

\* one turn of the loop of CodeGenerator.generate
Emitted(instruction, params) ==
    IF \E k \in DOMAIN params : ~params[k].int
    THEN [raised |-> TRUE, machine_code |-> <<>>]
    ELSE [raised |-> FALSE,
          machine_code |->
              <<NameToOpcode[instruction.name]>>
              \o (IF params = <<>> THEN <<>> ELSE ParamBytes(instruction, params[1]))]

\* the machine code of two runs of instructions, unless one of them raised
Joined(a, b) ==
    IF a.raised \/ b.raised THEN [raised |-> TRUE, machine_code |-> <<>>]
    ELSE [raised |-> FALSE, machine_code |-> a.machine_code \o b.machine_code]

\* CodeGenerator.generate over the instructions lo..hi
RECURSIVE generate(_, _, _, _)
generate(instructions, symbols, lo, hi) ==
    IF lo > hi THEN [raised |-> FALSE, machine_code |-> <<>>]
    ELSE IF lo = hi
    THEN Emitted(instructions[lo],
                 [k \in DOMAIN instructions[lo].parameters |->
                     resolve_label_addresses(symbols, instructions[lo].parameters[k])])
    ELSE Joined(generate(instructions, symbols, lo, (lo + hi) \div 2),
                generate(instructions, symbols, (lo + hi) \div 2 + 1, hi))

Generated(parser) ==
    IF parser.raised THEN [raised |-> TRUE, machine_code |-> <<>>]
    ELSE generate(parser.instructions, parser.symbols, 1, Len(parser.instructions))

\* AdvancedCompiler.compile_source
compile_source(source) == Generated(parse(Parser, source, 1, Len(source)))

\* the statements of the sources: the labels a and b, an instruction of each length,
\* and a jump to each label
Statements ==
    {Label("a"), Label("b"),
     Instruction("LDA", <<Number(5)>>), Instruction("INA", <<>>),
     Instruction("JMP", <<Identifier("a")>>), Instruction("JMP", <<Identifier("b")>>)}

\* LDA 0 / LDX 0 / EAX / JMZ END / HLT / :END / HLT
Branch ==
    <<Instruction("LDA", <<Number(0)>>), Instruction("LDX", <<Number(0)>>),
      Instruction("EAX", <<>>), Instruction("JMZ", <<Identifier("END")>>),
      Instruction("HLT", <<>>), Label("END"), Instruction("HLT", <<>>)>>

\* :L / LDA 1 / JMP L
Loop == <<Label("L"), Instruction("LDA", <<Number(1)>>), Instruction("JMP", <<Identifier("L")>>)>>

\* n lines of NOP
Nops(n) == [i \in 1..n |-> Instruction("NOP", <<>>)]

\* LDA far with the label far after, and before, 256 instructions
FarForward == <<Instruction("LDA", <<Identifier("far")>>)>> \o Nops(256) \o <<Label("far")>>

FarBackward == Nops(256) \o <<Label("far"), Instruction("LDA", <<Identifier("far")>>)>>

\* one-line sources the assembler is to refuse: FOO 1, LDA 256, LDA -1, LDA $1FF,
\* LDA 2 * 200, JMP 70000, JMP $10000, LDA, JMP, INA 3, LDA 1 2, LDA X, JMP X
Refused ==
    {<<Unknown("FOO", <<Number(1)>>)>>,
     <<Instruction("LDA", <<Number(256)>>)>>,
     <<Instruction("LDA", <<Number(-1)>>)>>,
     <<Instruction("LDA", <<HexNumber(<<1, 15, 15>>)>>)>>,
     <<Instruction("LDA", <<Number(2), Identifier("*"), Number(200)>>)>>,
     <<Instruction("JMP", <<Number(70000)>>)>>,
     <<Instruction("JMP", <<HexNumber(<<1, 0, 0, 0, 0>>)>>)>>,
     <<Instruction("LDA", <<>>)>>,
     <<Instruction("JMP", <<>>)>>,
     <<Instruction("INA", <<Number(3)>>)>>,
     <<Instruction("LDA", <<Number(1), Number(2)>>)>>,
     <<Instruction("LDA", <<Identifier("X")>>)>>,
     <<Instruction("JMP", <<Identifier("X")>>)>>}

\* one-line sources with each form of operand: LDA 7, LDA $FF, LDA 2 + 3, LDA 2 * 100,
\* FIL 170, JMP 258, JMP $0102, JMP $FFFF, JMP 1 2, WMA 255 0
OperandForms ==
    {<<Instruction("LDA", <<Number(7)>>)>>,
     <<Instruction("LDA", <<HexNumber(<<15, 15>>)>>)>>,
     <<Instruction("LDA", <<Number(2), Identifier("+"), Number(3)>>)>>,
     <<Instruction("LDA", <<Number(2), Identifier("*"), Number(100)>>)>>,
     <<Instruction("FIL", <<Number(170)>>)>>,
     <<Instruction("JMP", <<Number(258)>>)>>,
     <<Instruction("JMP", <<HexNumber(<<0, 1, 0, 2>>)>>)>>,
     <<Instruction("JMP", <<HexNumber(<<15, 15, 15, 15>>)>>)>>,
     <<Instruction("JMP", <<Number(1), Number(2)>>)>>,
     <<Instruction("WMA", <<Number(255), Number(0)>>)>>}

\* the sources above, alone and after the line INA
Examples ==
    {Branch, Loop, FarForward, FarBackward} \cup Refused \cup OperandForms
        \cup {<<Instruction("INA", <<>>)>> \o source : source \in Refused \cup OperandForms}

\* the sources with at most MaxStatements of the statements above
LabelSources == UNION {[1..n -> Statements] : n \in 0..MaxStatements}

Sources == LabelSources \cup Examples

\* cpu.load_data(compile(...)): the engine is left alone when the assembler raises
Assembled(source, r) ==
    IF r.raised
    THEN /\ UNCHANGED <<RAM_SIZE, RAM, GPU, REG, FLAGS, TICKS, frames, display>>
         /\ call' = Called("compile", "CompilerError", "none", source, 0)
    ELSE Returned("compile", load_data(Self, r.machine_code, 0), source, 0)

Assemble ==
    /\ call.op = "new"
    /\ \E source \in Sources : Assembled(source, compile_source(source))
    /\ loads' = loads + 1
    /\ UNCHANGED <<ram_size, run>>

NextAssembler == Assemble \/ RunTick

SpecAssembler == Constructed({MIN_RAM_SIZE}) /\ [][NextAssembler]_vars

\* JMP $HHHH, for the four hexadecimal digits HHHH
JumpTo(digits) == <<Instruction("JMP", <<HexNumber(digits)>>)>>

HexDigits == 0..15

AssembleJump ==
    /\ call.op = "new"
    /\ \E digits \in [1..4 -> HexDigits] :
          Assembled(JumpTo(digits), compile_source(JumpTo(digits)))
    /\ loads' = loads + 1
    /\ UNCHANGED <<ram_size, run>>

NextAddress == AssembleJump \/ RunTick

\* cpu = CPU(4): every address is assembled into a jump and run on the smallest memory
InitAddress == Constructed({MIN_RAM_SIZE}) /\ ~GPU

SpecAddress == InitAddress /\ [][NextAddress]_vars

\* the steps of RunTick: the only ones that count a tick, and possible exactly when
\* RunTick is
Ticking ==
    /\ ~halted(Self)
    /\ TICKS < MaxRunTicks
    /\ TICKS' = TICKS + 1

\* while not cpu.halted: cpu.tick() -- the caller ticks as long as the engine is not halted
SpecAssemblerRun == SpecAssembler /\ WF_TICKS(Ticking)

(***************************************************************************)
(* What the specification says of the engine, as properties of Spec,       *)
(* SpecFresh and SpecOpcode.  MemSize is RAM_SIZE; a rest point is any     *)
(* state; `call` tells which operation led to it.                          *)
(***************************************************************************)
Bytes == 0..BYTE_SIZE - 1

ZeroRegisters == [A |-> 0, X |-> 0, Y |-> 0, PC |-> 0]

\* the step is a call of tick that found the engine running and executed an instruction
TickExecutes == call'.op = "tick" /\ ~FLAGS.H /\ call'.instr # "none"

\* C1: at every rest point A, X and Y are in [0,255] and PC is in [0, MemSize), also
\* after an absolute jump whose operand is MemSize or more
C1_RegistersInRange ==
    /\ REG.A \in Bytes
    /\ REG.X \in Bytes
    /\ REG.Y \in Bytes
    /\ REG.PC \in 0..RAM_SIZE - 1

\* C2: a tick on a running engine whose cells are bytes raises no error
C2_TickNeverFaults ==
    (call.op = "tick" /\ \A k \in DOMAIN RAM.cells : RAM.cells[k] \in Bytes)
        => call.raised = "none"

\* C3: halted stays true across tick and load_data, reset is the only operation after
\* which halted is false again (and after it halted is false), and a running engine
\* becomes halted only by a tick that executes HLT, the byte at PC decoding to HLT
C3_HaltedAbsorbing ==
    [][/\ (FLAGS.H /\ call'.op \in {"tick", "load_data"}) => FLAGS'.H
       /\ (FLAGS.H /\ ~FLAGS'.H) => call'.op = "reset"
       /\ call'.op = "reset" => ~FLAGS'.H
       /\ (~FLAGS.H /\ FLAGS'.H) =>
             /\ call'.op = "tick"
             /\ call'.instr = "HLT"
             /\ InstructionList[GetItem(RAM, REG.PC)] = "HLT"]_vars

\* C3 happens: load_data wrote into a halted engine and it is still halted
C3_Witness ==
    /\ FLAGS.H
    /\ call.op = "load_data"
    /\ call.raised = "none"
    /\ call.data # <<>>
    /\ TICKS >= 1

\* C4: a tick on a halted engine changes no register, flag, memory cell or the tick
\* counter, raises nothing and does not invoke the display
C4_HaltedTickNoOp ==
    [][(call'.op = "tick" /\ FLAGS.H) =>
          /\ UNCHANGED <<REG, FLAGS, RAM, TICKS, frames>>
          /\ call'.raised = "none"]_vars

\* C4 happens: tick returned at once on a halted engine that has a display and whose
\* memory holds a program
C4_Witness ==
    /\ call.op = "tick"
    /\ call.raised = "none"
    /\ call.instr = "none"
    /\ FLAGS.H
    /\ GPU
    /\ RAM # ZeroList(RAM_SIZE)

\* C5: a fetched opcode byte that names no instruction is executed as HLT: PC advances
\* by one, the flags become {H}, A, X, Y and memory are unchanged, no error is raised
C5_UndefinedIsHLT ==
    [][(/\ call'.op = "tick"
        /\ ~FLAGS.H
        /\ REG.PC \in 0..RAM_SIZE - 1
        /\ GetItem(RAM, REG.PC) \in Bytes \ DOMAIN InstructionSet) =>
          /\ call'.raised = "none"
          /\ call'.instr = "HLT"
          /\ REG' = [REG EXCEPT !.PC = (REG.PC + 1) % RAM_SIZE]
          /\ FLAGS' = [Z |-> FALSE, O |-> FALSE, H |-> TRUE, N |-> FALSE]
          /\ RAM' = RAM]_vars

\* C5 happens: the byte after LDA 7 names no instruction, and the tick that fetched it
\* has halted the engine with A = 7
C5_Witness ==
    /\ call.op = "tick"
    /\ FLAGS.H
    /\ REG.A = 7
    /\ REG.PC = 3
    /\ GetItem(RAM, 2) \in Bytes \ DOMAIN InstructionSet

AbsoluteJumps == {"JMP", "JNZ", "JMZ", "JNN", "JMN", "JNO", "JMO"}

RelativeJumps == {"JFA", "JFX", "JFY", "JBA", "JBX", "JBY"}

\* the absolute jump is taken in the current state
Taken(name) ==
    \/ name = "JMP"
    \/ name = "JNZ" /\ ~FLAGS.Z
    \/ name = "JMZ" /\ FLAGS.Z
    \/ name = "JNN" /\ ~FLAGS.N
    \/ name = "JMN" /\ FLAGS.N
    \/ name = "JNO" /\ ~FLAGS.O
    \/ name = "JMO" /\ FLAGS.O

\* the 16-bit operand in the two cells after PC, high byte first
OperandAddress ==
    256 * GetItem(RAM, (REG.PC + 1) % RAM_SIZE) + GetItem(RAM, (REG.PC + 2) % RAM_SIZE)

\* C6: a tick that executes an instruction other than HLT adds one to the tick counter;
\* PC becomes (p + 1 + operand bytes) mod MemSize if the instruction is no jump, and the
\* jump target mod MemSize if it is a taken absolute jump
C6_TickAdvancesPC ==
    [][(TickExecutes /\ call'.instr # "HLT") =>
          /\ TICKS' = TICKS + 1
          /\ call'.instr \notin AbsoluteJumps \cup RelativeJumps =>
                REG'.PC = (REG.PC + 1 + Length(call'.instr)) % RAM_SIZE
          /\ (call'.instr \in AbsoluteJumps /\ Taken(call'.instr)) =>
                REG'.PC = OperandAddress % RAM_SIZE]_vars

\* C7: HLT has opcode 0, and the first tick of a new or just reset engine halts it with
\* A = X = Y = 0 and memory still all zero
C7_ZeroMemoryHalts ==
    [][(call.op \in {"new", "reset"} /\ call'.op = "tick") =>
          /\ NameToOpcode["HLT"] = 0
          /\ call'.raised = "none"
          /\ FLAGS'.H
          /\ REG'.A = 0 /\ REG'.X = 0 /\ REG'.Y = 0
          /\ RAM' = ZeroList(RAM_SIZE)]_vars

\* C7 happens: the first tick after a reset has executed HLT from cell 0 of a memory
\* that is all zero, after earlier ticks of a loaded program
C7_Witness ==
    /\ call.op = "tick"
    /\ call.instr = "HLT"
    /\ FLAGS.H
    /\ RAM = ZeroList(RAM_SIZE)
    /\ REG = [ZeroRegisters EXCEPT !.PC = 1]
    /\ loads >= 1
    /\ TICKS >= 2

\* C8: reset zeroes every memory cell, A, X, Y, PC and the four flags, and leaves
\* MemSize, the display binding and the tick counter as they were
C8_ResetEffect ==
    [][call'.op = "reset" =>
          /\ RAM' = ZeroList(RAM_SIZE)
          /\ REG' = ZeroRegisters
          /\ FLAGS' = [Z |-> FALSE, O |-> FALSE, H |-> FALSE, N |-> FALSE]
          /\ UNCHANGED <<RAM_SIZE, GPU, TICKS>>]_vars

\* C8 happens: reset came after two ticks of a loaded program, on an engine with a
\* display, and the two ticks are still counted
C8_Witness ==
    /\ call.op = "reset"
    /\ TICKS >= 2
    /\ loads >= 1
    /\ GPU
    /\ RAM = ZeroList(RAM_SIZE)

\* the cells load_data(data, offset) writes
Loaded(data, offset) == offset..offset + Len(data) - 1

PowersOfTwo == {2^e : e \in 0..8}

\* the smallest power of two that is n or more
CeilPowerOfTwo(n) ==
    CHOOSE p \in PowersOfTwo : p >= n /\ \A q \in PowersOfTwo : q >= n => p <= q

\* the values x on which masking and the remainder are compared
Masked == (-3..260) \cup {RAM_SIZE - 1, RAM_SIZE, RAM_SIZE + 1, 2 * RAM_SIZE - 1, 65535, 65536, 70000}

\* C10: construction with requested size k gives MemSize = 1024 * (smallest power of two
\* >= min(64, max(4, k))), one of {4,8,16,32,64} * 1024, so x & (MemSize-1) = x mod
\* MemSize; all cells are 0, A = X = Y = PC = 0, all flags false, ticks = 0
C10_Construction ==
    /\ RAM_SIZE = 1024 * CeilPowerOfTwo(Min(64, Max(4, ram_size)))
    /\ RAM_SIZE \in {4 * 1024, 8 * 1024, 16 * 1024, 32 * 1024, 64 * 1024}
    /\ \A x \in Masked : BitAnd(x, RAM_SIZE - 1) = x % RAM_SIZE
    /\ call.op = "new" =>
          /\ RAM = ZeroList(RAM_SIZE)
          /\ REG = ZeroRegisters
          /\ FLAGS = [Z |-> FALSE, O |-> FALSE, H |-> FALSE, N |-> FALSE]
          /\ TICKS = 0

\* C10 happens: an engine was asked for 33 KiB and has 64 KiB
C10_Witness ==
    /\ call.op = "new"
    /\ ram_size = 33
    /\ RAM_SIZE = 64 * 1024

(***************************************************************************)
(* What the specification says of the instructions.                        *)
(***************************************************************************)
\* the step is CPU.execute of one of the instructions names
Executes(names) == call'.op = "execute" /\ call'.instr \in names

\* the register an instruction writes
Destination(name) ==
    CASE name \in {"AAX", "AAY", "SAX", "SAY", "INA", "DEA", "BLA"} -> "A"
      [] name \in {"AXY", "SXY", "INX", "DEX", "BLX"} -> "X"
      [] name \in {"INY", "DEY", "BLY"} -> "Y"

\* the result of an instruction on the current registers, before truncation
PreTruncation(name) ==
    CASE name = "AAX" -> REG.A + REG.X
      [] name = "AAY" -> REG.A + REG.Y
      [] name = "AXY" -> REG.X + REG.Y
      [] name = "SAX" -> REG.A - REG.X
      [] name = "SAY" -> REG.A - REG.Y
      [] name = "SXY" -> REG.X - REG.Y
      [] name \in {"INA", "INX", "INY"} -> REG[Destination(name)] + 1
      [] name \in {"DEA", "DEX", "DEY"} -> REG[Destination(name)] - 1
      [] name \in {"BLA", "BLX", "BLY"} -> 2 * REG[Destination(name)]

\* the flags the result-flag rule gives to the pre-truncation result r
ResultFlags(r) == [Z |-> r = 0 \/ r = 256, O |-> r >= 256, H |-> FALSE, N |-> r < 0]

\* C11: every add, subtract, increment, decrement and shift-left stores r mod 256 in its
\* destination, r being the result before truncation, and leaves the flags {Z} if r = 0,
\* {N} if r < 0, {O,Z} if r = 256, {O} if r > 256, none otherwise; H is never set
C11_ResultFlagRule ==
    [][Executes(ValidatingClasses) =>
          /\ REG' = [REG EXCEPT ![Destination(call'.instr)] =
                                    PreTruncation(call'.instr) % 256]
          /\ FLAGS' = ResultFlags(PreTruncation(call'.instr))]_vars

\* C11 happens: AAX with A = 200 and X = 100 has left A = 44 and only O set
C11_Witness ==
    /\ call.op = "execute"
    /\ call.instr = "AAX"
    /\ REG.A = 44
    /\ REG.X = 100
    /\ REG.Y = (200 + 100) % 256
    /\ FLAGS = [Z |-> FALSE, O |-> TRUE, H |-> FALSE, N |-> FALSE]

\* C12: INA from A leaves A' = (A + 1) mod 256, Z set iff A' = 0 and O set iff A = 255;
\* likewise INX on X and INY on Y
C12_Increment ==
    [][Executes({"INA", "INX", "INY"}) =>
          /\ REG' = [REG EXCEPT ![Destination(call'.instr)] = (@ + 1) % 256]
          /\ FLAGS'.Z = (REG'[Destination(call'.instr)] = 0)
          /\ FLAGS'.O = (REG[Destination(call'.instr)] = 255)]_vars

\* C12 happens: INA from 255 has left A = 0 with Z and O set
C12_Witness ==
    /\ call.op = "execute"
    /\ call.instr = "INA"
    /\ REG.A = 0
    /\ FLAGS.Z
    /\ FLAGS.O

\* C13: SAX with A = a and X = b leaves A' = (a - b) mod 256 and X unchanged, N set iff
\* a < b and Z set iff a = b
C13_SubtractAX ==
    [][Executes({"SAX"}) =>
          /\ REG' = [REG EXCEPT !.A = (REG.A - REG.X) % 256]
          /\ FLAGS'.N = (REG.A < REG.X)
          /\ FLAGS'.Z = (REG.A = REG.X)]_vars

\* C13 happens: SAX with A = 10 and X = 20 has left A = 246 with N set
C13_Witness ==
    /\ call.op = "execute"
    /\ call.instr = "SAX"
    /\ REG.A = 246
    /\ REG.X = 20
    /\ REG.Y = (10 + 20) % 256
    /\ FLAGS.N

(***************************************************************************)
(* What the specification says of programs, as properties of SpecProgram.  *)
(***************************************************************************)
\* the run of program has just made its n-th tick, which executed the instruction name
Ran(program, n, name) ==
    call.op = "tick" /\ call.data = program /\ TICKS = n /\ call.instr = name

\* C14: a register written to a cell and read back from the same address, with the
\* registers changed in between and no other write to the cell, holds the value written,
\* and so does the cell a & (MemSize - 1): WMA/RMA, WMX/RMX, WMY/RMY at the operand
\* address, WMI/RMI at Y * 256 + X and WMO/RMO at the operand address plus X
C14_WriteReadRoundTrip ==
    /\ \A t \in AbsolutePairs, v \in RoundTripValues, addr \in RoundTripAddresses :
          Ran(AbsoluteRoundTrip(t, v, addr), 4, t[3]) =>
              REG[t[4]] = v /\ GetItem(RAM, addr % RAM_SIZE) = v
    /\ \A x \in IndexBytes, y \in HighBytes, v \in RoundTripValues :
          Ran(IndexedRoundTrip(x, y, v), 6, "RMI") =>
              REG.A = v /\ GetItem(RAM, (y * 256 + x) % RAM_SIZE) = v
    /\ \A x \in IndexBytes, v \in RoundTripValues, base \in RoundTripAddresses :
          Ran(OffsetRoundTrip(x, v, base), 5, "RMO") =>
              REG.A = v /\ GetItem(RAM, (base + x) % RAM_SIZE) = v

\* LDA 42; WMA $1100; CLR; RMA $1100 has run on a 4 KiB engine: A and cell $0100 are 42
C14_Witness ==
    /\ Ran(AbsoluteRoundTrip(<<"LDA", "WMA", "RMA", "A">>, 42, 4352), 4, "RMA")
    /\ RAM_SIZE = 4096
    /\ REG.A = 42
    /\ REG.X = 0
    /\ GetItem(RAM, 256) = 42

\* C15: a tick that executes a conditional absolute jump at p transfers control to the
\* operand address iff the jump's condition holds on the flags before the tick, leaves
\* PC = (p + 3) mod MemSize otherwise, and on both paths leaves all four flags false and
\* A, X, Y and memory as they were
C15_ConditionalJump ==
    [][(TickExecutes /\ call'.instr \in ConditionalJumps) =>
          /\ IF Taken(call'.instr)
             THEN REG'.PC % RAM_SIZE = OperandAddress % RAM_SIZE
             ELSE REG'.PC = (REG.PC + 3) % RAM_SIZE
          /\ FLAGS' = BLANK_FLAGS
          /\ REG'.A = REG.A /\ REG'.X = REG.X /\ REG'.Y = REG.Y
          /\ RAM' = RAM]_vars

\* LDX 7; DEA; JNN $0100 has run: N was set, the jump at 3 was not taken and PC is 6
C15_Witness ==
    /\ Ran(<<Op("LDX"), 7, Op("DEA"), Op("JNN"), 1, 0, Op("HLT")>>, 3, "JNN")
    /\ REG = [A |-> 255, X |-> 7, Y |-> 0, PC |-> 6]
    /\ FLAGS = BLANK_FLAGS

\* the cells that are not zero in memory a or in memory b
Cells(a, b) == DOMAIN a.cells \cup DOMAIN b.cells

\* the n cells from address start on, wrapping at the end of memory
Region(start, n) == {(start + i) % RAM_SIZE : i \in 0..n - 1}

\* the address in X and Y
IndexAddress == REG.Y * 256 + REG.X

KeepsAXY == REG'.A = REG.A /\ REG'.X = REG.X /\ REG'.Y = REG.Y

\* C16: FIL with A = N, X = lo, Y = hi and operand v writes v to the N cells
\* (hi * 256 + lo + i) mod MemSize, i < N, and to no other cell, leaves A, X, Y as they
\* were and all flags false; with N = 0 memory is unchanged
C16_Fill ==
    [][(TickExecutes /\ call'.instr = "FIL") =>
          /\ Len_(RAM') = Len_(RAM)
          /\ \A c \in Cells(RAM, RAM') \cup Region(IndexAddress, REG.A) :
                GetItem(RAM', c) = IF c \in Region(IndexAddress, REG.A)
                                   THEN GetItem(RAM, (REG.PC + 1) % RAM_SIZE)
                                   ELSE GetItem(RAM, c)
          /\ KeepsAXY
          /\ FLAGS' = BLANK_FLAGS
          /\ REG.A = 0 => RAM' = RAM]_vars

\* FIL of 3 cells from $0FFE with $AA has run on a 4 KiB engine: cells $0FFE, $0FFF and
\* 0 hold $AA, cell 1 still holds the 3 of LDA 3
C16_Witness ==
    /\ Ran(BlockProgram(3, 4094, "FIL", <<170>>), 4, "FIL")
    /\ RAM_SIZE = 4096
    /\ GetItem(RAM, 4094) = 170 /\ GetItem(RAM, 4095) = 170 /\ GetItem(RAM, 0) = 170
    /\ GetItem(RAM, 1) = 3
    /\ REG.A = 3

\* C17: CMP with A = N, source s = (Y * 256 + X) mod MemSize and operand d sets Z and
\* no other flag iff the N cells from s equal the N cells from d, cell by cell, and sets
\* no flag otherwise; the comparison with s and d swapped has the same outcome; memory
\* and A, X, Y are unchanged
C17_Compare ==
    [][(TickExecutes /\ call'.instr = "CMP") =>
          /\ FLAGS' = [Z |-> \A i \in 0..REG.A - 1 :
                               GetItem(RAM, (IndexAddress + i) % RAM_SIZE)
                                 = GetItem(RAM, (OperandAddress + i) % RAM_SIZE),
                       O |-> FALSE, H |-> FALSE, N |-> FALSE]
          /\ FLAGS'.Z = CompareFrom(RAM, OperandAddress % RAM_SIZE,
                                    IndexAddress % RAM_SIZE, 0, REG.A)
          /\ RAM' = RAM
          /\ KeepsAXY]_vars

\* CMP of the 3 cells from $0100 with the 3 cells from $0FFE has run on a 4 KiB engine:
\* the third pair is cell $0102, zero, and cell 0, the opcode of LDA, and no flag is set
C17_Witness ==
    /\ Ran(BlockProgram(3, 256, "CMP", address_to_bytes(4094)), 4, "CMP")
    /\ RAM_SIZE = 4096
    /\ GetItem(RAM, 258) # GetItem(RAM, 0)
    /\ GetItem(RAM, 256) = GetItem(RAM, 4094) /\ GetItem(RAM, 257) = GetItem(RAM, 4095)
    /\ FLAGS = BLANK_FLAGS

\* C18: CPY with A = N, source s = (Y * 256 + X) mod MemSize and operand d leaves in
\* each cell (d + i) mod MemSize, i < N, what the cell (s + i) mod MemSize held before
\* the instruction, wherever the two regions lie; the other cells are unchanged and all
\* flags are false
C18_Copy ==
    [][(TickExecutes /\ call'.instr = "CPY") =>
          /\ \A i \in 0..REG.A - 1 :
                GetItem(RAM', (OperandAddress + i) % RAM_SIZE)
                  = GetItem(RAM, (IndexAddress + i) % RAM_SIZE)
          /\ \A c \in Cells(RAM, RAM') \ Region(OperandAddress, REG.A) :
                GetItem(RAM', c) = GetItem(RAM, c)
          /\ FLAGS' = BLANK_FLAGS]_vars

\* C19: a tick decodes the byte memory holds at PC and fetches its operands from the
\* cells after it, as the instruction before left them: after LDX v; WMX $0005 has put
\* v in cell 5, where PC points, the next tick executes the instruction v names
C19_WritesSeenByNextFetch ==
    [][TickExecutes =>
          /\ call'.instr = InstructionList[GetItem(RAM, REG.PC)]
          /\ \A r \in {"A", "X", "Y"} :
                call'.instr = "LD" \o r => REG'[r] = GetItem(RAM, (REG.PC + 1) % RAM_SIZE)
          /\ \A v \in Bytes :
                (call.data = Overwrite(v) /\ call.instr = "WMX" /\ TICKS = 2) =>
                    /\ REG.PC = 5
                    /\ GetItem(RAM, 5) = v
                    /\ call'.instr = InstructionList[v]]_vars

\* LDX v; WMX $0005 has put v, the opcode of INA, over the HLT in cell 5, and the third
\* tick has executed INA: A is 1
C19_Witness ==
    /\ Ran(Overwrite(Op("INA")), 3, "INA")
    /\ GetItem(RAM, 5) = Op("INA")
    /\ REG.A = 1
    /\ REG.PC = 6
    /\ ~FLAGS.H

(***************************************************************************)
(* What the specification says of the assembler, as properties of          *)
(* SpecAssembler.                                                          *)
(***************************************************************************)
\* the bytes the first k statements of source emit: 1 + operand bytes for each
\* instruction among them
RECURSIVE BytesIn(_, _, _)
BytesIn(source, lo, hi) ==
    IF lo > hi THEN 0
    ELSE IF lo = hi
    THEN (IF source[lo].type = "INSTRUCTION" THEN 1 + Length(source[lo].value) ELSE 0)
    ELSE BytesIn(source, lo, (lo + hi) \div 2) + BytesIn(source, (lo + hi) \div 2 + 1, hi)

BytesBefore(source, k) == BytesIn(source, 1, k)

\* the labels the instructions of source refer to
References(source) ==
    {source[i].parameters[1].name :
        i \in {i \in DOMAIN source : /\ source[i].type = "INSTRUCTION"
                                      /\ source[i].parameters # <<>>
                                      /\ source[i].parameters[1].type = "IDENTIFIER"}}

Definitions(source, name) == {i \in DOMAIN source : source[i] = Label(name)}

\* every label referred to is defined once
DefinedOnce(source) == \A name \in References(source) : Cardinality(Definitions(source, name)) = 1

\* the byte offset of the instruction that follows the definition of the label
LabelOffset(source, name) ==
    BytesBefore(source, CHOOSE i \in Definitions(source, name) : TRUE)

\* the bytes statement k of source is to emit
StatementBytes(source, k) ==
    IF source[k].type = "LABEL" THEN <<>>
    ELSE <<Op(source[k].value)>>
         \o (IF source[k].parameters = <<>> THEN <<>>
             ELSE IF source[k].parameters[1].type = "IDENTIFIER"
                  THEN address_to_bytes(LabelOffset(source, source[k].parameters[1].name))
                  ELSE IF Length(source[k].value) = 2
                       THEN address_to_bytes(source[k].parameters[1].number)
                       ELSE <<source[k].parameters[1].number>>)

\* C20: each label is resolved to the byte offset of the instruction that follows its
\* definition, and each reference to it, before or after the definition, emits the high
\* and the low byte of that offset: the assembled source, loaded at 0, puts the bytes of
\* statement k in the cells from the byte offset of statement k on
C20_LabelsAreByteOffsets ==
    (call.op = "compile" /\ call.data \in LabelSources /\ DefinedOnce(call.data)) =>
        /\ call.raised = "none"
        /\ \A k \in DOMAIN call.data :
              \A j \in DOMAIN StatementBytes(call.data, k) :
                  GetItem(RAM, BytesBefore(call.data, k - 1) + j - 1)
                    = StatementBytes(call.data, k)[j]

\* C21: the source LDA 0 / LDX 0 / EAX / JMZ END / HLT / :END / HLT, assembled, loaded at
\* 0 of a fresh engine and run: the third tick, EAX, leaves Z true; the fourth, JMZ, is
\* taken and leaves PC at END, the byte offset 9 of the last HLT; and the engine halts
\* on the HLT at END, with PC past it, and ticks = 4
C21_BranchHaltsAtEnd ==
    (call.op = "tick" /\ call.data = Branch) =>
        /\ TICKS = 3 => call.instr = "EAX" /\ FLAGS.Z
        /\ TICKS = 4 => call.instr = "JMZ" /\ REG.PC = 9
        /\ halted(Self) => REG.PC = 10 /\ TICKS = 4

\* C22: the source :L / LDA 1 / JMP L assembles to LDA, 1, JMP, 0, 0, and run from offset
\* 0 of a fresh engine it loops for ever: the engine is never halted, PC is 0 or 2 between
\* the ticks, and each count of ticks is followed by the next one
C22_LoopRunsForever ==
    /\ [](call.data = Loop /\ call.op \in {"compile", "tick"} =>
            /\ call.raised = "none"
            /\ [i \in 1..5 |-> GetItem(RAM, i - 1)] = <<Op("LDA"), 1, Op("JMP"), 0, 0>>
            /\ ~halted(Self)
            /\ REG.PC \in {0, 2})
    /\ \A n \in 0..(MaxRunTicks - 1) :
            (call.data = Loop /\ TICKS = n) ~> (call.data = Loop /\ TICKS = n + 1)

C22_Witness ==
    /\ call.op = "tick" /\ call.data = Loop
    /\ TICKS = MaxRunTicks
    /\ REG.A = 1
    /\ ~halted(Self)

\* a label name is defined by two statements of source
Duplicated(source) ==
    \E i, j \in DOMAIN source :
        /\ i < j
        /\ source[i].type = "LABEL" /\ source[j].type = "LABEL"
        /\ source[i].value = source[j].value

\* C23: a source that defines the same label name twice does not assemble: the
\* assembler raises, nothing is loaded, and no definition replaces an earlier one
C23_DuplicateLabelRefused ==
    (call.op = "compile" /\ Duplicated(call.data)) =>
        /\ call.raised = "CompilerError"
        /\ DOMAIN RAM.cells = {}

\* source refers to a label it does not define
Undefined(source) == \E name \in References(source) : Definitions(source, name) = {}

\* the sources with an unknown mnemonic, a value outside 0..255 for one operand byte (a
\* literal, an expression, a label after or before 256 instructions), an address above
\* 65535, too few or too many operands, or an undefined name: alone, and after an
\* instruction that is in order
Erroneous(source) ==
    \/ source \in Refused \cup {<<Instruction("INA", <<>>)>> \o refused : refused \in Refused}
    \/ source \in {FarForward, FarBackward}
    \/ source \in LabelSources /\ Undefined(source)

\* C24: a source with one of these errors does not assemble: the assembler raises and
\* gives no bytes at all, so nothing is loaded
C24_ErrorsRefused ==
    (call.op = "compile" /\ Erroneous(call.data)) =>
        /\ call.raised = "CompilerError"
        /\ compile_source(call.data).machine_code = <<>>
        /\ DOMAIN RAM.cells = {}

\* the instruction the engine decodes with PC at the cell `at`, and PC afterwards
DecodedAt(at) ==
    [instruction |-> decode(fetch([Self EXCEPT !.REG.PC = at]).self, GetItem(RAM, at)).instruction,
     next |-> decode(fetch([Self EXCEPT !.REG.PC = at]).self, GetItem(RAM, at)).self.REG.PC]

\* C25: the bytes of a source that assembles are, instruction after instruction, the
\* opcode and as many operand bytes as the class of the opcode has, each in 0..255; their
\* number is the sum of 1 + the operand bytes over the instructions; and the engine,
\* loaded with them at 0, decodes each instruction of the source at its byte offset
C25_StreamLayout ==
    (call.op = "compile" /\ call.raised = "none") =>
        /\ Len(compile_source(call.data).machine_code) = BytesBefore(call.data, Len(call.data))
        /\ DOMAIN RAM.cells \subseteq 0..(BytesBefore(call.data, Len(call.data)) - 1)
        /\ \A i \in DOMAIN RAM.cells : RAM.cells[i] \in Bytes
        /\ \A k \in DOMAIN call.data :
              call.data[k].type = "INSTRUCTION" =>
                  DecodedAt(BytesBefore(call.data, k - 1))
                    = [instruction |-> call.data[k].value,
                       next |-> BytesBefore(call.data, k)]

C25_Witness ==
    /\ call.op = "compile" /\ call.data = Branch /\ call.raised = "none"
    /\ GetItem(RAM, 2) = Op("LDX")
    /\ GetItem(RAM, 5) = Op("JMZ")
    /\ GetItem(RAM, 7) = 5

\* one instruction with two operand bytes and what it is to assemble to: JMP $0102,
\* JMP $FFFF, JMP 1 2, WMA 255 0
AddressForms ==
    {<<<<Instruction("JMP", <<HexNumber(<<0, 1, 0, 2>>)>>)>>, <<Op("JMP"), 1, 2>>>>,
     <<<<Instruction("JMP", <<HexNumber(<<15, 15, 15, 15>>)>>)>>, <<Op("JMP"), 255, 255>>>>,
     <<<<Instruction("JMP", <<Number(1), Number(2)>>)>>, <<Op("JMP"), 1, 2>>>>,
     <<<<Instruction("WMA", <<Number(255), Number(0)>>)>>, <<Op("WMA"), 255, 0>>>>}

\* C26: an instruction with two operand bytes assembles with one label or one $HHHH,
\* to the high and the low byte, and with two decimal bytes, to these two in order
C26_TwoByteOperandForms ==
    call.op = "compile" =>
        /\ call.data = Loop =>
              /\ call.raised = "none"
              /\ [i \in 1..3 |-> GetItem(RAM, i + 1)] = <<Op("JMP"), 0, 0>>
        /\ \A form \in AddressForms :
              call.data = form[1] =>
                  /\ call.raised = "none"
                  /\ [i \in 1..3 |-> GetItem(RAM, i - 1)] = form[2]

\* the address the four hexadecimal digits write
Written(digits) == 4096 * digits[1] + 256 * digits[2] + 16 * digits[3] + digits[4]

\* C27: for every address a of 0..65535 the operand $a is assembled to the bytes a >> 8
\* and a & 255, high byte first; the engine makes (hi << 8) | lo = a of the two bytes,
\* and the jump leaves in PC the address written, up to the mask MemSize - 1
C27_AddressRoundTrip ==
    \A digits \in {call.data[1].parameters[1].digits : k \in {1} \cap DOMAIN call.data} :
        /\ call.raised # "CompilerError"
        /\ GetItem(RAM, 0) = Op("JMP")
        /\ GetItem(RAM, 1) = Written(digits) \div 256
        /\ GetItem(RAM, 2) = Written(digits) % 256
        /\ data_to_memory_location(<<GetItem(RAM, 1), GetItem(RAM, 2)>>) = Written(digits)
        /\ Ran(call.data, 1, "JMP") => REG.PC % RAM_SIZE = Written(digits) % RAM_SIZE

C27_Witness ==
    /\ call.op = "tick" /\ call.data = JumpTo(<<10, 11, 12, 13>>)
    /\ TICKS = 1
    /\ REG.PC % RAM_SIZE = 3021
    /\ GetItem(RAM, 1) = 171 /\ GetItem(RAM, 2) = 205

\* the step is such a call of tick, not the passing of time after one
TickAtOnce == TickExecutes /\ display'.time = display.time

\* C28: the display limits its frame rate: a draw less than an interval after the last
\* frame prints nothing and leaves last_drawn as it was; a draw an interval or more after
\* it prints and sets last_drawn to the time of the call
C28_FrameRateLimited ==
    [][(TickAtOnce /\ GPU) =>
          IF should_draw(Self)
          THEN /\ frames' = frames + 1
               /\ display'.last_drawn = display.time
          ELSE /\ frames' = frames
               /\ display'.last_drawn = display.last_drawn
               /\ display'.printed = display.printed]_vars

\* C29: a tick that executes an instruction on an engine with a display draws once,
\* after the instruction and the count of the tick: no error is raised, whatever the size
\* of the memory, and what is printed are the last WIDTH * HEIGHT cells of the memory as
\* the instruction left them; on an engine without a display nothing is drawn
C29_DrawnOncePerTick ==
    [][TickAtOnce =>
          IF GPU
          THEN /\ call'.raised = "none"
               /\ TICKS' = TICKS + 1
               /\ frames' = frames + 1
               /\ Len_(display'.printed) = WIDTH * HEIGHT
               /\ \A i \in 0..(WIDTH * HEIGHT - 1) :
                     GetItem(display'.printed, i) = GetItem(RAM', RAM_SIZE - WIDTH * HEIGHT + i)
          ELSE /\ frames' = frames
               /\ display' = display]_vars

C29_Witness ==
    /\ call.op = "tick" /\ call.instr = "WMA" /\ call.raised = "none"
    /\ GPU /\ RAM_SIZE = 65536
    /\ TICKS = 4 /\ frames = 4
    /\ GetItem(display.printed, WIDTH * HEIGHT - 1) = 65
    /\ GetItem(display.printed, WIDTH * HEIGHT - 2) = 66

\* the engine with or without a display, whose clock reads time and which drew last
\* at last_drawn
Other(gpu, time, last_drawn) ==
    [Self EXCEPT !.GPU = gpu, !.display.time = time, !.display.last_drawn = last_drawn]

\* C30: the engine is deterministic, and the display has no part in it: a tick of any
\* engine with the same size, memory, registers and flags, with or without a display and
\* whatever the clock of the display, ends the same way and leaves the same memory,
\* registers and flags and the same increment of ticks as the tick taken
C30_Deterministic ==
    [][call'.op = "tick" =>
          \A gpu \in BOOLEAN, time \in {Interval, MaxTime}, last_drawn \in {0, MaxTime} :
              \A other \in {tick(Other(gpu, time, last_drawn))} :
                  /\ other.raised = call'.raised
                  /\ other.self.RAM = RAM'
                  /\ other.self.REG = REG'
                  /\ other.self.FLAGS = FLAGS'
                  /\ other.self.TICKS - TICKS = TICKS' - TICKS]_vars

C30_Witness ==
    /\ call.op = "tick" /\ call.instr = "CPY"
    /\ GPU /\ frames = 4 /\ TICKS = 4
    /\ GetItem(display.printed, WIDTH * HEIGHT - 2) # 0

(***************************************************************************)
(* What the specification says of run, as a property of SpecRun.           *)
(***************************************************************************)
\* C31: run returns when the engine is halted or the host cancels: a call that was not
\* cancelled returns with the engine halted and ticks advanced by the turns of its loop,
\* one tick a turn; on a halted engine no instruction is executed; a cancelled call
\* returns with the engine as the last complete tick left it; and no report interval
\* makes the progress check raise
C31_RunReturns ==
    /\ [](/\ run.raised # "ZeroDivisionError"
          /\ run.at = "returned" /\ ~run.interrupted => halted(Self)
          /\ run.at \in {"loop", "returned"} /\ ~run.interrupted =>
                 TICKS = run.since + run.turns)
    /\ [][/\ run.at = "loop" /\ halted(Self) =>
                UNCHANGED <<RAM, REG, FLAGS, TICKS>> /\ run'.at = "returned"
          /\ run.at = "loop" /\ run'.interrupted =>
                UNCHANGED <<RAM, REG, FLAGS, TICKS>> /\ run'.at = "returned"]_vars

(***************************************************************************)
(* What the specification says of single instructions, as properties of    *)
(* SpecTest.                                                               *)
(***************************************************************************)
\* the test case ran instruction name set up at cell pc
Tested(name, pc) == call.op = "tick" /\ call.instr = name /\ call.offset = pc

\* the register a relative jump adds to PC or subtracts from it
JumpRegister(name) ==
    CASE name \in {"JFA", "JBA"} -> "A"
      [] name \in {"JFX", "JBX"} -> "X"
      [] name \in {"JFY", "JBY"} -> "Y"

\* C32: a tick that executes JFA, JFX or JFY at p leaves PC = (p + 1 + r) mod MemSize,
\* r being the value of A, X or Y, and one that executes JBA, JBX or JBY leaves
\* PC = (p + 1 - r) mod MemSize; the flags are all false afterwards and A, X, Y and
\* memory are as they were
C32_RelativeJump ==
    [][(TickExecutes /\ call'.instr \in RelativeJumps) =>
          /\ REG'.PC = (IF call'.instr \in {"JFA", "JFX", "JFY"}
                        THEN REG.PC + 1 + REG[JumpRegister(call'.instr)]
                        ELSE REG.PC + 1 - REG[JumpRegister(call'.instr)]) % RAM_SIZE
          /\ FLAGS' = BLANK_FLAGS
          /\ KeepsAXY
          /\ RAM' = RAM]_vars

\* C32 happens: JBX in cell 0 of a 4 KiB memory with X = 255 has left PC = 4096 - 254
C32_Witness ==
    /\ Tested("JBX", 0)
    /\ RAM_SIZE = 4096
    /\ REG.X = 255
    /\ REG.PC = 3842
    /\ FLAGS = BLANK_FLAGS

\* the conditional loads: the register loaded, the flag tested, and whether the load
\* needs the flag set
ConditionalLoads ==
    [CAZ |-> <<"A", "Z", TRUE>>, NAZ |-> <<"A", "Z", FALSE>>,
     CAO |-> <<"A", "O", TRUE>>, NAO |-> <<"A", "O", FALSE>>,
     CAN |-> <<"A", "N", TRUE>>, NAN |-> <<"A", "N", FALSE>>,
     CXZ |-> <<"X", "Z", TRUE>>, NXZ |-> <<"X", "Z", FALSE>>,
     CXO |-> <<"X", "O", TRUE>>, NXO |-> <<"X", "O", FALSE>>,
     CXN |-> <<"X", "N", TRUE>>, NXN |-> <<"X", "N", FALSE>>,
     CYZ |-> <<"Y", "Z", TRUE>>, NYZ |-> <<"Y", "Z", FALSE>>,
     CYO |-> <<"Y", "O", TRUE>>, NYO |-> <<"Y", "O", FALSE>>,
     CYN |-> <<"Y", "N", TRUE>>, NYN |-> <<"Y", "N", FALSE>>]

\* the operand byte in the cell after PC
OperandByte == GetItem(RAM, (REG.PC + 1) % RAM_SIZE)

\* C33: a tick that executes C<R><F> sets R to the operand byte iff flag F was set, and
\* one that executes N<R><F> iff it was not; else R keeps its value; on both paths the
\* operand is consumed (PC advances by 2), the other registers and memory are as they
\* were and all four flags are false
C33_ConditionalLoad ==
    [][(TickExecutes /\ call'.instr \in DOMAIN ConditionalLoads) =>
          \A load \in {ConditionalLoads[call'.instr]} :
             /\ REG'[load[1]] = IF FLAGS[load[2]] = load[3] THEN OperandByte
                                 ELSE REG[load[1]]
             /\ \A r \in {"A", "X", "Y"} \ {load[1]} : REG'[r] = REG[r]
             /\ REG'.PC = (REG.PC + 2) % RAM_SIZE
             /\ RAM' = RAM
             /\ FLAGS' = BLANK_FLAGS]_vars

\* C33 happens: NXO 77 in the last two cells of memory with O set and Z set has kept
\* X = 128, and PC has wrapped to cell 0
C33_Witness ==
    /\ Tested("NXO", RAM_SIZE - 2)
    /\ call.data = <<Op("NXO"), 77>>
    /\ REG = [A |-> 1, X |-> 128, Y |-> 255, PC |-> 0]
    /\ FLAGS = BLANK_FLAGS
    /\ GetItem(RAM, RAM_SIZE - 1) = 77

\* bit i of the byte v
Bit(v, i) == (v \div 2^i) % 2

\* the byte whose bit i is op of bit i of a and bit i of b
Bitwise(op(_, _), a, b) ==
    op(Bit(a, 0), Bit(b, 0)) + 2 * op(Bit(a, 1), Bit(b, 1))
        + 4 * op(Bit(a, 2), Bit(b, 2)) + 8 * op(Bit(a, 3), Bit(b, 3))
        + 16 * op(Bit(a, 4), Bit(b, 4)) + 32 * op(Bit(a, 5), Bit(b, 5))
        + 64 * op(Bit(a, 6), Bit(b, 6)) + 128 * op(Bit(a, 7), Bit(b, 7))

AndBit(x, y) == x * y

OrBit(x, y) == x + y - x * y

XorBit(x, y) == (x + y) % 2

\* the copies, the bitwise operations and the right shifts: the destination, the source
\* or other operand, and the operation
RegisterOps ==
    [CAX |-> <<"X", "A", "copy">>, CAY |-> <<"Y", "A", "copy">>,
     CXA |-> <<"A", "X", "copy">>, CYA |-> <<"A", "Y", "copy">>,
     CXY |-> <<"Y", "X", "copy">>, CYX |-> <<"X", "Y", "copy">>,
     NAX |-> <<"A", "X", "and">>, NAY |-> <<"A", "Y", "and">>, NXY |-> <<"X", "Y", "and">>,
     OAX |-> <<"A", "X", "or">>, OAY |-> <<"A", "Y", "or">>, OXY |-> <<"X", "Y", "or">>,
     XAX |-> <<"A", "X", "xor">>, XAY |-> <<"A", "Y", "xor">>, XXY |-> <<"X", "Y", "xor">>,
     BRA |-> <<"A", "A", "shift">>, BRX |-> <<"X", "X", "shift">>,
     BRY |-> <<"Y", "Y", "shift">>]

\* what the operation of o stores in its destination, on the current registers
Stored(o) ==
    CASE o[3] = "copy" -> REG[o[2]]
      [] o[3] = "and" -> Bitwise(AndBit, REG[o[1]], REG[o[2]])
      [] o[3] = "or" -> Bitwise(OrBit, REG[o[1]], REG[o[2]])
      [] o[3] = "xor" -> Bitwise(XorBit, REG[o[1]], REG[o[2]])
      [] o[3] = "shift" -> REG[o[1]] \div 2

\* C34: a tick that executes a register copy, AND, OR, XOR or right shift leaves in the
\* destination the source value, dest op other or floor(dest / 2), leaves the other
\* registers of A, X, Y as they were, and leaves the flags {Z} if the destination is 0
\* and all false otherwise
C34_RegisterOps ==
    [][(TickExecutes /\ call'.instr \in DOMAIN RegisterOps) =>
          \A o \in {RegisterOps[call'.instr]} :
             /\ REG'[o[1]] = Stored(o)
             /\ \A r \in {"A", "X", "Y"} \ {o[1]} : REG'[r] = REG[r]
             /\ FLAGS' = IF REG'[o[1]] = 0 THEN ZERO_FLAGS ELSE BLANK_FLAGS]_vars

\* C34 happens: XAY in cell 0 with A = 85 and Y = 255 has left A = 170, X and Y as they
\* were and no flag set
C34_Witness ==
    /\ Tested("XAY", 0)
    /\ REG = [A |-> 170, X |-> 1, Y |-> 255, PC |-> 1]
    /\ FLAGS = BLANK_FLAGS

\* the instructions that write to memory
MemoryWrites == {"WMA", "WMX", "WMY", "WMI", "WMO", "FIL", "CPY"}

\* the registers of A, X, Y an instruction writes
Destinations(name) ==
    CASE name \in DOMAIN RegisterOps -> {RegisterOps[name][1]}
      [] name \in DOMAIN ConditionalLoads -> {ConditionalLoads[name][1]}
      [] InSeq(name, ArithmeticClasses) \/ name \in {"BLA", "BLX", "BLY"} ->
            {Destination(name)}
      [] name \in {"LDA", "RMA", "RMI", "RMO"} -> {"A"}
      [] name \in {"LDX", "RMX"} -> {"X"}
      [] name \in {"LDY", "RMY"} -> {"Y"}
      [] name = "CLR" -> {"A", "X", "Y"}
      [] OTHER -> {}

\* C35: a tick that executes an instruction that is no memory write leaves every memory
\* cell as it was, and a tick that executes any instruction leaves each of A, X, Y that
\* is not a destination of the instruction as it was; CLR alone has more than one
\* destination
C35_Frame ==
    [][TickExecutes =>
          /\ call'.instr \notin MemoryWrites => RAM' = RAM
          /\ \A r \in {"A", "X", "Y"} \ Destinations(call'.instr) : REG'[r] = REG[r]
          /\ Cardinality(Destinations(call'.instr)) > 1 => call'.instr = "CLR"]_vars

\* C35 happens: SXY in the last cell of a 64 KiB memory with X = 1 and Y = 128 has left
\* X = 129 with N set, A and Y as they were and the instruction the only cell not zero
C35_Witness ==
    /\ Tested("SXY", 65535)
    /\ REG = [A |-> 85, X |-> 129, Y |-> 128, PC |-> 0]
    /\ FLAGS = NEGATIVE_FLAGS
    /\ RAM = SetItem(ZeroList(65536), 65535, Op("SXY"))

\* C36: after a tick that executes an add, subtract, increment, decrement, shift, bitwise
\* operation or register copy, Z is set iff the destination register holds 0; a result
\* of 256 stores 0 with Z and O set, and N set implies the destination is not 0
C36_ZeroIffStoredZero ==
    [][(TickExecutes /\ call'.instr \in ValidatingClasses \cup DOMAIN RegisterOps) =>
          \A r \in Destinations(call'.instr) :
             /\ FLAGS'.Z <=> REG'[r] = 0
             /\ FLAGS'.N => REG'[r] # 0
             /\ (call'.instr \in ValidatingClasses /\ PreTruncation(call'.instr) = 256) =>
                   REG'[r] = 0 /\ FLAGS'.Z /\ FLAGS'.O]_vars

\* C36 happens: AAY with A = 128 and Y = 128 has stored 0 in A with Z and O set
C36_Witness ==
    /\ Tested("AAY", 0)
    /\ REG = [A |-> 0, X |-> 85, Y |-> 128, PC |-> 1]
    /\ FLAGS = OVER_ZERO_FLAGS

\* the flag combinations of utils.py
FlagCombinations ==
    {BLANK_FLAGS, ZERO_FLAGS, OVERFLOW_FLAGS, NEGATIVE_FLAGS, HALT_FLAGS, OVER_ZERO_FLAGS}

\* C37: the flags are always one of six combinations: all false, {Z}, {O}, {N}, {H} and
\* {O, Z}; and a tick that executes an instruction replaces all four flags: it leaves
\* the flags it would leave had they all been false before
C37_FlagCombinations ==
    /\ [](FLAGS \in FlagCombinations)
    /\ [][TickExecutes => FLAGS' = tick([Self EXCEPT !.FLAGS = BLANK_FLAGS]).self.FLAGS]_vars

\* C37 happens: EXY with X = Y = 85, set up with N set, has left Z alone
C37_Witness ==
    /\ Tested("EXY", 0)
    /\ REG = [A |-> 0, X |-> 85, Y |-> 85, PC |-> 1]
    /\ FLAGS = ZERO_FLAGS

RegistryAgrees ==
    /\ DOMAIN NameToOpcode = ClassNames
    /\ \A m \in ClassNames, n \in ClassNames : NameToOpcode[m] = NameToOpcode[n] => m = n
    /\ NameToOpcode["HLT"] = 0 /\ NameToOpcode["CLR"] = 1 /\ NameToOpcode["NOP"] = 2
    /\ \A m \in ClassNames :
          /\ NameToOpcode[m] \in 0..255
          /\ Length(m) \in {0, 1, 2}
          /\ InstructionList[NameToOpcode[m]] = m

\* C39: the registry agrees with itself, and the engine agrees with it: a class set up by
\* the opcode of its name is the class the tick dispatches, with as many operand bytes
\* as the class declares
C39_OpcodeRegistry ==
    /\ RegistryAgrees
    /\ call.op = "setup" =>
          /\ GetItem(RAM, REG.PC) = NameToOpcode[call.instr]
          /\ Len(call.data) = 1 + Length(call.instr)
    /\ (call.op = "tick" /\ call.instr # "none") =>
          /\ NameToOpcode[call.instr] = call.data[1]
          /\ Len(call.data) = 1 + Length(call.instr)

\* C39 happens: WMA, the first class of the last module, was set up as opcode 73 with two
\* operand bytes and the tick has dispatched WMA
C39_Witness ==
    /\ Tested("WMA", 0)
    /\ call.data = <<73, 1, 0>>
    /\ REG.PC = 3
    /\ GetItem(RAM, 256) = REG.A
    /\ REG.A = 85

====
